---- MODULE Spec2Model ----
(***************************************************************************)
(* impcache: a versioned JSON cache facade (Cache, service.py) over a      *)
(* byte-level Redis repository (RedisCacheRepository, repository.py).      *)
(*                                                                         *)
(* Python strings and bytes are sequences of one-character strings;        *)
(* Python values are tagged records [t |-> type name, v |-> payload], so   *)
(* that None, booleans, numbers, strings, lists and dicts stay distinct.   *)
(***************************************************************************)
EXTENDS Integers, Sequences, FiniteSets, TLC

VARIABLES
    store,    \* the remote store: key -> [val |-> bytes, ttl |-> seconds]
    seed,     \* the contents the store held before any caller ran
    cache,    \* Cache instance -> [key_prefix, version]        (service.py:14-16)
    pc,       \* caller -> position in the operation it runs
    call,     \* caller -> the operation the application invoked, with its arguments
    cursor,   \* caller -> delete_pattern's cursor               (repository.py:132)
    keys,     \* caller -> delete_pattern's last scanned batch   (repository.py:134)
    removed_keys, \* caller -> delete_pattern's running count    (repository.py:130)
    scanned,  \* caller -> keys the store's scan iteration has covered so far
    reply,    \* caller -> what the Repository operation returned
    ret,      \* caller -> what the invoked operation returned
    exc,      \* caller -> the exception the invoked operation raised, or "none"
    invoked,  \* caller -> the Repository operations the call has invoked, in order
    log,      \* callers in the order their store commands were executed
    _instances,   \* SingletonMeta._instances: class -> its one instance (tools.py:6)
    connection,   \* RedisConnection objects made, each as the DSN of its client (tools.py:17)
    session,      \* Repository -> the DSN it was given and the client its session wraps
    entered,  \* caller -> times its operation entered the session scope (__aenter__)
    exited,   \* caller -> times its operation left the session scope (__aexit__)
    disconnected  \* caller -> the shared client was closed under its awaited command

vars == <<store, seed, cache, pc, call, cursor, keys, removed_keys, scanned,
          reply, ret, exc, invoked, log, _instances, connection, session,
          entered, exited, disconnected>>

\* what the constructors set up and no operation changes
wiring == <<_instances, connection, session>>

-----------------------------------------------------------------------------
(* Bounds of the model *)

\* concurrent callers; each runs one operation
NumCallers == 2
\* longest list built into the JSON value domain
MaxListLen == 2

Callers == 1..NumCallers

-----------------------------------------------------------------------------
(* Python values *)

None == [t |-> "NoneType", v |-> 0]
PyBool(b) == [t |-> "bool", v |-> b]
PyInt(n) == [t |-> "int", v |-> n]
PyStr(s) == [t |-> "str", v |-> s]
PyBytes(b) == [t |-> "bytes", v |-> b]
PyList(xs) == [t |-> "list", v |-> xs]
\* a dict is its items in insertion order: <<key string, value>> pairs
PyDict(items) == [t |-> "dict", v |-> items]
\* a finite float, written as its shortest decimal form: sign, integer part,
\* fraction digits
PyFloat(neg, int, frac) ==
    [t |-> "float", v |-> [kind |-> "finite", neg |-> neg, int |-> int, frac |-> frac]]
\* float("inf"), float("-inf"), float("nan")
PyNonFinite(kind) ==
    [t |-> "float", v |-> [kind |-> kind, neg |-> FALSE, int |-> 0, frac |-> <<>>]]
\* uuid.UUID, held as its canonical lowercase hyphenated string
PyUUID(s) == [t |-> "UUID", v |-> s]
\* decimal.Decimal, held as its digits
PyDecimal(s) == [t |-> "Decimal", v |-> s]

Digits == <<"0", "1", "2", "3", "4", "5", "6", "7", "8", "9">>

IsDigit(ch) == \E i \in 1..Len(Digits) : Digits[i] = ch

DigitValue(ch) == (CHOOSE i \in 1..Len(Digits) : Digits[i] = ch) - 1

RECURSIVE NatToStr(_)
NatToStr(n) ==
    IF n < 10 THEN <<Digits[n + 1]>>
    ELSE NatToStr(n \div 10) \o <<Digits[(n % 10) + 1]>>

\* str(n) of a Python int
IntToStr(n) == IF n < 0 THEN <<"-">> \o NatToStr(0 - n) ELSE NatToStr(n)

\* the items of dict d after d[k] = x
DictSet(d, k, x) ==
    IF \E i \in 1..Len(d) : d[i][1] = k
    THEN [i \in 1..Len(d) |-> IF d[i][1] = k THEN <<k, x>> ELSE d[i]]
    ELSE Append(d, <<k, x>>)

\* a finite set as a sequence, in some fixed order
RECURSIVE SetToSeq(_)
SetToSeq(S) ==
    IF S = {} THEN <<>>
    ELSE LET x == CHOOSE y \in S : TRUE IN <<x>> \o SetToSeq(S \ {x})

SeqToSet(xs) == {xs[i] : i \in 1..Len(xs)}

-----------------------------------------------------------------------------
(* The JSON codec: orjson.dumps / orjson.loads behind JsonSerializerMixin *)

RECURSIVE Encodable(_)
\* whether orjson.dumps accepts the value; a Decimal has no JSON form and
\* raises TypeError (test_raises_error_on_dumps)
Encodable(x) ==
    CASE x.t = "Decimal" -> FALSE
      [] x.t = "bytes" -> FALSE
      [] x.t = "list" -> \A i \in 1..Len(x.v) : Encodable(x.v[i])
      [] x.t = "dict" -> \A i \in 1..Len(x.v) : Encodable(x.v[i][2])
      [] OTHER -> TRUE

\* EscapeStr with a fault: nothing is escaped
EscapeStr_plain(s) == s

RECURSIVE EscapeStr(_)
\* the body of a JSON string: quote and backslash are escaped
EscapeStr(s) ==
    IF s = <<>> THEN <<>>
    ELSE (IF Head(s) = "\"" \/ Head(s) = "\\" THEN <<"\\", Head(s)>> ELSE <<Head(s)>>)
         \o EscapeStr(Tail(s))

QuoteStr(s) == <<"\"">> \o EscapeStr(s) \o <<"\"">>

EncodeFloat(f) ==
    IF f.kind # "finite" THEN <<"n", "u", "l", "l">>
    ELSE (IF f.neg THEN <<"-">> ELSE <<>>) \o NatToStr(f.int) \o <<".">> \o f.frac

RECURSIVE Encode(_)
RECURSIVE EncodeItems(_)
RECURSIVE EncodeMembers(_)
\* the compact JSON text of an encodable value (test_can_set_many lists the forms)
Encode(x) ==
    CASE x.t = "NoneType" -> <<"n", "u", "l", "l">>
      [] x.t = "bool" -> IF x.v THEN <<"t", "r", "u", "e">> ELSE <<"f", "a", "l", "s", "e">>
      [] x.t = "int" -> IntToStr(x.v)
      [] x.t = "float" -> EncodeFloat(x.v)
      [] x.t = "str" -> QuoteStr(x.v)
      [] x.t = "UUID" -> QuoteStr(x.v)
      [] x.t = "list" -> <<"[">> \o EncodeItems(x.v) \o <<"]">>
      [] x.t = "dict" -> <<"{">> \o EncodeMembers(x.v) \o <<"}">>

EncodeItems(xs) ==
    IF xs = <<>> THEN <<>>
    ELSE Encode(Head(xs))
         \o (IF Len(xs) > 1 THEN <<",">> \o EncodeItems(Tail(xs)) ELSE <<>>)

EncodeMembers(items) ==
    IF items = <<>> THEN <<>>
    ELSE QuoteStr(Head(items)[1]) \o <<":">> \o Encode(Head(items)[2])
         \o (IF Len(items) > 1 THEN <<",">> \o EncodeMembers(Tail(items)) ELSE <<>>)

\* JsonSerializerMixin.dumps: the bytes, or JsonEncodeError
dumps(json) ==
    IF Encodable(json)
    THEN [exc |-> "none", bytes |-> Encode(json)]
    ELSE [exc |-> "JsonEncodeError", bytes |-> <<>>]

\* a failed parse
NoParse == [ok |-> FALSE, val |-> None, next |-> 0]

Parsed(x, next) == [ok |-> TRUE, val |-> x, next |-> next]

\* whether the text lit stands in s at position i
HasLiteral(s, i, lit) ==
    /\ i + Len(lit) - 1 <= Len(s)
    /\ \A j \in 1..Len(lit) : s[i + j - 1] = lit[j]

RECURSIVE ParseDigits(_, _, _)
\* the run of digits of s from position i, appended to acc
ParseDigits(s, i, acc) ==
    IF i <= Len(s) /\ IsDigit(s[i]) THEN ParseDigits(s, i + 1, Append(acc, s[i]))
    ELSE [digits |-> acc, next |-> i]

RECURSIVE DigitsToNat(_, _)
DigitsToNat(ds, acc) ==
    IF ds = <<>> THEN acc ELSE DigitsToNat(Tail(ds), acc * 10 + DigitValue(Head(ds)))

RECURSIVE StripZeros(_)
\* fraction digits without trailing zeros (1.10 is the float 1.1), one kept
StripZeros(ds) ==
    IF Len(ds) > 1 /\ ds[Len(ds)] = "0" THEN StripZeros(SubSeq(ds, 1, Len(ds) - 1))
    ELSE ds

\* a JSON number at position i: an int, or with a fraction a float
ParseNumber(s, i) ==
    LET neg == i <= Len(s) /\ s[i] = "-"
        j == IF neg THEN i + 1 ELSE i
        whole == ParseDigits(s, j, <<>>)
        n == DigitsToNat(whole.digits, 0)
        k == whole.next
    IN  IF whole.digits = <<>> \/ (Len(whole.digits) > 1 /\ whole.digits[1] = "0")
        THEN NoParse
        ELSE IF k <= Len(s) /\ s[k] = "."
        THEN LET fr == ParseDigits(s, k + 1, <<>>)
             IN  IF fr.digits = <<>> THEN NoParse
                 ELSE Parsed(PyFloat(neg, n, StripZeros(fr.digits)), fr.next)
        ELSE Parsed(PyInt(IF neg THEN 0 - n ELSE n), k)

RECURSIVE ParseStr(_, _, _)
\* the body of a JSON string from position i (after the opening quote)
ParseStr(s, i, acc) ==
    IF i > Len(s) THEN NoParse
    ELSE IF s[i] = "\"" THEN Parsed(PyStr(acc), i + 1)
    ELSE IF s[i] = "\\"
    THEN IF i + 1 <= Len(s) /\ (s[i + 1] = "\"" \/ s[i + 1] = "\\")
         THEN ParseStr(s, i + 2, Append(acc, s[i + 1]))
         ELSE NoParse
    ELSE ParseStr(s, i + 1, Append(acc, s[i]))

RECURSIVE ParseValue(_, _)
RECURSIVE ParseItems(_, _, _)
RECURSIVE ParseMembers(_, _, _)
\* the JSON value that starts at position i of s
ParseValue(s, i) ==
    IF i > Len(s) THEN NoParse
    ELSE CASE s[i] = "n" ->
                IF HasLiteral(s, i, <<"n", "u", "l", "l">>) THEN Parsed(None, i + 4)
                ELSE NoParse
           [] s[i] = "t" ->
                IF HasLiteral(s, i, <<"t", "r", "u", "e">>) THEN Parsed(PyBool(TRUE), i + 4)
                ELSE NoParse
           [] s[i] = "f" ->
                IF HasLiteral(s, i, <<"f", "a", "l", "s", "e">>)
                THEN Parsed(PyBool(FALSE), i + 5)
                ELSE NoParse
           [] s[i] = "\"" -> ParseStr(s, i + 1, <<>>)
           [] s[i] = "[" ->
                IF i + 1 <= Len(s) /\ s[i + 1] = "]" THEN Parsed(PyList(<<>>), i + 2)
                ELSE ParseItems(s, i + 1, <<>>)
           [] s[i] = "{" ->
                IF i + 1 <= Len(s) /\ s[i + 1] = "}" THEN Parsed(PyDict(<<>>), i + 2)
                ELSE ParseMembers(s, i + 1, <<>>)
           [] s[i] = "-" \/ IsDigit(s[i]) -> ParseNumber(s, i)
           [] OTHER -> NoParse

\* the items of an array from position i, up to its closing bracket
ParseItems(s, i, acc) ==
    LET item == ParseValue(s, i)
        k == item.next
    IN  IF ~item.ok \/ k > Len(s) THEN NoParse
        ELSE IF s[k] = "," THEN ParseItems(s, k + 1, Append(acc, item.val))
        ELSE IF s[k] = "]" THEN Parsed(PyList(Append(acc, item.val)), k + 1)
        ELSE NoParse

\* the members of an object from position i, up to its closing brace
ParseMembers(s, i, acc) ==
    IF i > Len(s) \/ s[i] # "\"" THEN NoParse
    ELSE LET name == ParseStr(s, i + 1, <<>>)
             j == name.next
         IN  IF ~name.ok \/ j > Len(s) \/ s[j] # ":" THEN NoParse
             ELSE LET member == ParseValue(s, j + 1)
                      k == member.next
                      items == DictSet(acc, name.val.v, member.val)
                  IN  IF ~member.ok \/ k > Len(s) THEN NoParse
                      ELSE IF s[k] = "," THEN ParseMembers(s, k + 1, items)
                      ELSE IF s[k] = "}" THEN Parsed(PyDict(items), k + 1)
                      ELSE NoParse

\* JsonSerializerMixin.loads: the value, or JsonDecodeError when the payload
\* is not one well-formed JSON text
loads(payload) ==
    LET parse == ParseValue(payload, 1)
    IN  IF parse.ok /\ parse.next = Len(payload) + 1
        THEN [exc |-> "none", json |-> parse.val]
        ELSE [exc |-> "JsonDecodeError", json |-> None]

-----------------------------------------------------------------------------
(* Key derivation *)

\* how an f-string renders a version: str(int), or the string itself
FormatVersion(version) ==
    IF version.t = "int" THEN IntToStr(version.v) ELSE version.v

\* make_key with a fault: an override that is given is ignored
make_key_default_only(self, key, version) ==
    self.key_prefix \o <<":">> \o FormatVersion(self.version) \o <<":">> \o key

\* make_key with a fault: `version or self.version`, a falsy override gives
\* way to the default
make_key_truthy_override(self, key, version) ==
    LET key_version == IF version \notin {None, PyInt(0), PyStr(<<>>)} THEN version
                       ELSE self.version
    IN  self.key_prefix \o <<":">> \o FormatVersion(key_version) \o <<":">> \o key

\* ICache.make_key
make_key(self, key, version) ==
    LET key_version == IF version # None THEN version ELSE self.version
    IN  self.key_prefix \o <<":">> \o FormatVersion(key_version) \o <<":">> \o key

-----------------------------------------------------------------------------
(* The store: the Redis commands the Repository issues through its session. *)
(* Each command runs atomically at the store and yields the store after it, *)
(* the reply as the driver hands it to Python, and whether it was rejected  *)
(* (ResponseError).                                                         *)

\* TTL of a key that has no expiration
NoTTL == -1

\* the largest expiration, in seconds, the store accepts (LLONG_MAX / 1000 at
\* the store), scaled down to the integers of the model
ExpireLimit == 1000

EmptyStore == [k \in {} |-> [val |-> <<>>, ttl |-> NoTTL]]

Put(s, k, entry) == [x \in DOMAIN s \cup {k} |-> IF x = k THEN entry ELSE s[x]]

Drop(s, ks) == [x \in DOMAIN s \ ks |-> s[x]]

Done(s, r) == [store |-> s, reply |-> r, err |-> FALSE]

Rejected(s) == [store |-> s, reply |-> None, err |-> TRUE]

\* RedisSET with a fault: NX on an existing key keeps the value but restarts
\* its expiration
RedisSET_nx_refreshes_ttl(s, name, value, ex, nx) ==
    IF ex <= 0 \/ ex > ExpireLimit THEN Rejected(s)
    ELSE IF nx /\ name \in DOMAIN s
    THEN Done(Put(s, name, [val |-> s[name].val, ttl |-> ex]), None)
    ELSE Done(Put(s, name, [val |-> value, ttl |-> ex]), PyBool(TRUE))

\* SET name value EX ex [NX]: True, or None when NX finds the key; an
\* expiration that is not positive or out of range is an error
RedisSET(s, name, value, ex, nx) ==
    IF ex <= 0 \/ ex > ExpireLimit THEN Rejected(s)
    ELSE IF nx /\ name \in DOMAIN s THEN Done(s, None)
    ELSE Done(Put(s, name, [val |-> value, ttl |-> ex]), PyBool(TRUE))

\* GET name
RedisGET(s, name) ==
    Done(s, IF name \in DOMAIN s THEN PyBytes(s[name].val) ELSE None)

\* RedisMGET with a fault: keys that are not there are left out of the reply
RedisMGET_present_only(s, ks) ==
    Done(s, PyList([i \in 1..Cardinality({j \in 1..Len(ks) : ks[j] \in DOMAIN s}) |->
                      PyBytes(s[ks[CHOOSE j \in 1..Len(ks) :
                                       /\ ks[j] \in DOMAIN s
                                       /\ Cardinality({m \in 1..j : ks[m] \in DOMAIN s}) = i]].val)]))

\* MGET keys; the driver answers an empty key list with [] itself
RedisMGET(s, ks) ==
    Done(s, PyList([i \in 1..Len(ks) |->
                      IF ks[i] \in DOMAIN s THEN PyBytes(s[ks[i]].val) ELSE None]))

\* RedisDEL with a fault: the reply counts the names given
RedisDEL_counts_names(s, names) ==
    IF names = <<>> THEN Rejected(s)
    ELSE Done(Drop(s, SeqToSet(names)), PyInt(Len(names)))

\* DEL names: the number of keys removed; no name at all is an arity error
RedisDEL(s, names) ==
    IF names = <<>> THEN Rejected(s)
    ELSE Done(Drop(s, SeqToSet(names)),
              PyInt(Cardinality(SeqToSet(names) \cap DOMAIN s)))

\* MSET k v [k v ...]: the keys are written without expiration
RedisMSET(s, data) ==
    IF data = <<>> THEN Rejected(s)
    ELSE Done([x \in DOMAIN s \cup {data[i][1] : i \in 1..Len(data)} |->
                 IF \E i \in 1..Len(data) : data[i][1] = x
                 THEN [val |-> data[CHOOSE i \in 1..Len(data) : data[i][1] = x][2],
                       ttl |-> NoTTL]
                 ELSE s[x]],
              PyBool(TRUE))

\* EXPIRE name time: an expiration out of range is an error, one that is
\* not positive removes the key
RedisEXPIRE(s, name, time) ==
    IF time > ExpireLimit THEN Rejected(s)
    ELSE IF name \notin DOMAIN s THEN Done(s, PyBool(FALSE))
    ELSE IF time <= 0 THEN Done(Drop(s, {name}), PyBool(TRUE))
    ELSE Done(Put(s, name, [val |-> s[name].val, ttl |-> time]), PyBool(TRUE))

\* the commands a pipeline buffers
CmdMSET(data) == [name |-> "MSET", data |-> data, key |-> <<>>, time |-> 0]
CmdEXPIRE(key, time) == [name |-> "EXPIRE", data |-> <<>>, key |-> key, time |-> time]

RunCommand(s, cmd) ==
    IF cmd.name = "MSET" THEN RedisMSET(s, cmd.data)
    ELSE RedisEXPIRE(s, cmd.key, cmd.time)

RECURSIVE RunQueued(_, _, _)
\* the queued commands run in order; one that fails has no effect and the
\* ones after it still run
RunQueued(s, cmds, failed) ==
    IF cmds = <<>> THEN [store |-> s, err |-> failed]
    ELSE LET o == RunCommand(s, Head(cmds))
         IN  RunQueued(o.store, Tail(cmds), failed \/ o.err)

\* MULTI, the commands, EXEC (pipeline(transaction=True).execute()): a command
\* the store rejects when it is queued (its arity) aborts the transaction and
\* nothing runs; otherwise all commands run as one step, and the driver raises
\* the first error among their replies
RedisEXEC(s, cmds) ==
    IF \E i \in 1..Len(cmds) : cmds[i].name = "MSET" /\ cmds[i].data = <<>>
    THEN Rejected(s)
    ELSE LET o == RunQueued(s, cmds, FALSE)
         IN  IF o.err THEN Rejected(o.store) ELSE Done(o.store, PyBool(TRUE))

\* printable ASCII in code order (the backquote left out), for the ranges of
\* a glob class
Ascii ==
    <<" ", "!", "\"", "#", "$", "%", "&", "'", "(", ")", "*", "+", ",", "-", ".", "/",
      "0", "1", "2", "3", "4", "5", "6", "7", "8", "9", ":", ";", "<", "=", ">", "?",
      "@", "A", "B", "C", "D", "E", "F", "G", "H", "I", "J", "K", "L", "M", "N", "O",
      "P", "Q", "R", "S", "T", "U", "V", "W", "X", "Y", "Z", "[", "\\", "]", "^", "_",
      "a", "b", "c", "d", "e", "f", "g", "h", "i", "j", "k", "l", "m", "n", "o",
      "p", "q", "r", "s", "t", "u", "v", "w", "x", "y", "z", "{", "|", "}", "~">>

Ord(ch) == CHOOSE i \in 1..Len(Ascii) : Ascii[i] = ch

RECURSIVE StripStars(_)
StripStars(p) == IF p # <<>> /\ Head(p) = "*" THEN StripStars(Tail(p)) ELSE p

RECURSIVE GlobClass(_, _, _)
\* a class after its "[" (and "^"): whether ch is in it, and the pattern
\* after its "]"
GlobClass(p, ch, match) ==
    IF p = <<>> THEN [match |-> match, rest |-> <<>>]
    ELSE IF Len(p) >= 2 /\ p[1] = "\\"
    THEN GlobClass(SubSeq(p, 3, Len(p)), ch, match \/ p[2] = ch)
    ELSE IF p[1] = "]" THEN [match |-> match, rest |-> Tail(p)]
    ELSE IF Len(p) >= 3 /\ p[2] = "-"
    THEN LET lo == IF Ord(p[1]) <= Ord(p[3]) THEN Ord(p[1]) ELSE Ord(p[3])
             hi == IF Ord(p[1]) <= Ord(p[3]) THEN Ord(p[3]) ELSE Ord(p[1])
         IN  GlobClass(SubSeq(p, 4, Len(p)), ch, match \/ (lo <= Ord(ch) /\ Ord(ch) <= hi))
    ELSE GlobClass(Tail(p), ch, match \/ p[1] = ch)

RECURSIVE stringmatch(_, _)
\* the store's glob matcher, as SCAN ... MATCH applies it to a key:
\* ? one character, * any run, [set], [^set], [a-b], \x the character x
stringmatch(p, s) ==
    LET next(q, t) == IF t = <<>> THEN StripStars(q) = <<>> ELSE stringmatch(q, t)
    IN  IF s = <<>> THEN StripStars(p) = <<>>
        ELSE IF p = <<>> THEN FALSE
        ELSE CASE p[1] = "*" ->
                    LET q == StripStars(p)
                    IN  \/ q = <<>>
                        \/ \E k \in 1..Len(s) : stringmatch(q, SubSeq(s, k, Len(s)))
               [] p[1] = "?" -> next(Tail(p), Tail(s))
               [] p[1] = "[" ->
                    LET not == Len(p) >= 2 /\ p[2] = "^"
                        class == GlobClass(SubSeq(p, IF not THEN 3 ELSE 2, Len(p)), s[1], FALSE)
                    IN  (class.match # not) /\ next(class.rest, Tail(s))
               [] p[1] = "\\" /\ Len(p) >= 2 ->
                    p[2] = s[1] /\ next(SubSeq(p, 3, Len(p)), Tail(s))
               [] OTHER -> p[1] = s[1] /\ next(Tail(p), Tail(s))

\* RedisSCAN with a fault: MATCH is not applied, every key of the batch is
\* replied
RedisSCAN_unfiltered(s, covered, match, count, batch, again) ==
    LET now == covered \cup batch
    IN  [store |-> s,
         reply |-> [cursor |-> IF DOMAIN s \subseteq now THEN 0 ELSE Cardinality(now),
                    keys |-> SetToSeq(batch) \o SetToSeq(again)],
         covered |-> now,
         err |-> FALSE]

\* SCAN cursor MATCH match COUNT count. The iteration covers the key space a
\* batch at a time: `covered` is what the cursor stands for (nothing at cursor
\* 0), `batch` the keys this step covers, at most `count` of them and at
\* least one not covered before while any is left. It replies the matching
\* keys of the batch, those of `again` a second time, and the next cursor, 0
\* once every key is covered.
RedisSCAN(s, covered, match, count, batch, again) ==
    LET now == covered \cup batch
        found == {k \in batch : stringmatch(match, k)}
    IN  [store |-> s,
         reply |-> [cursor |-> IF DOMAIN s \subseteq now THEN 0 ELSE Cardinality(now),
                    keys |-> SetToSeq(found) \o SetToSeq(again \cap found)],
         covered |-> now,
         err |-> FALSE]

\* the batches a SCAN step may cover: SCAN may return a key more than once,
\* so a batch may hold keys covered before
ScanBatches(s, covered, count) ==
    LET left == DOMAIN s \ covered
    IN  {b \in SUBSET DOMAIN s : Cardinality(b) <= count /\ (b \cap left = {} => left = {})}

\* the keys of a batch a SCAN reply may hold twice
ScanRepeats(batch, match) == SUBSET {k \in batch : stringmatch(match, k)}

-----------------------------------------------------------------------------
(* Callers. Each caller invokes one operation, of a Cache or of the         *)
(* Repository directly, and runs it to its return. A coroutine is suspended *)
(* only at store I/O, so the steps of an operation are its store commands   *)
(* and its exit from the session scope.                                     *)

\* SCAN's COUNT in delete_pattern
chunk_size == 1000

\* what the application invoked: layer "cache" or "repository"; value and
\* the values of data are Python values (bytes at the Repository)
Call(layer, op, inst, key, value, expire, ks, data, version) ==
    [layer |-> layer, op |-> op, inst |-> inst, key |-> key, value |-> value,
     expire |-> expire, keys |-> ks, data |-> data, version |-> version]

NoCall == Call("none", "none", "none", <<>>, None, 0, <<>>, <<>>, None)

\* an invocation of a Repository operation: key (or pattern), value bytes,
\* expire, key list, data as <<key, bytes>> items
Request(op, key, value, expire, ks, data) ==
    [op |-> op, key |-> key, value |-> value, expire |-> expire, keys |-> ks,
     data |-> data]

\* the request the caller's Repository operation is serving
Req(c) == invoked[c][Len(invoked[c])]

\* the application's call reaches a Repository method, which enters its
\* session scope; delete_pattern also sets up its loop (repository.py:129-132)
Invoke(c, cl, rq) ==
    /\ pc[c] = "idle"
    /\ call' = [call EXCEPT ![c] = cl]
    /\ invoked' = [invoked EXCEPT ![c] = Append(@, rq)]
    /\ pc' = [pc EXCEPT ![c] = IF rq.op = "delete_pattern" THEN "scan" ELSE "command"]
    /\ cursor' = [cursor EXCEPT ![c] = 0]
    /\ removed_keys' = [removed_keys EXCEPT ![c] = 0]
    /\ entered' = [entered EXCEPT ![c] = @ + 1]
    /\ UNCHANGED <<store, seed, cache, keys, scanned, reply, ret, exc, log, exited,
                   disconnected, wiring>>

\* the application's call raises before any Repository method is reached
Raise(c, cl, e) ==
    /\ pc[c] = "idle"
    /\ call' = [call EXCEPT ![c] = cl]
    /\ exc' = [exc EXCEPT ![c] = e]
    /\ pc' = [pc EXCEPT ![c] = "done"]
    /\ UNCHANGED <<store, seed, cache, cursor, keys, removed_keys, scanned, reply,
                   ret, invoked, log, entered, exited, disconnected, wiring>>

(* The application calls the Repository directly *)

Repository_set(c, key, value, expire) ==
    /\ pc[c] = "idle"
    /\ Invoke(c, Call("repository", "set", "none", key, PyBytes(value), expire, <<>>, <<>>, None),
              Request("set", key, value, expire, <<>>, <<>>))

Repository_set_nx(c, key, value, expire) ==
    /\ pc[c] = "idle"
    /\ Invoke(c, Call("repository", "set_nx", "none", key, PyBytes(value), expire, <<>>, <<>>, None),
              Request("set_nx", key, value, expire, <<>>, <<>>))

Repository_set_many(c, data, expire) ==
    /\ pc[c] = "idle"
    /\ Invoke(c, Call("repository", "set_many", "none", <<>>, None, expire, <<>>,
                      [i \in 1..Len(data) |-> <<data[i][1], PyBytes(data[i][2])>>], None),
              Request("set_many", <<>>, <<>>, expire, <<>>, data))

Repository_get(c, key) ==
    /\ pc[c] = "idle"
    /\ Invoke(c, Call("repository", "get", "none", key, None, 0, <<>>, <<>>, None),
              Request("get", key, <<>>, 0, <<>>, <<>>))

Repository_get_many(c, ks) ==
    /\ pc[c] = "idle"
    /\ Invoke(c, Call("repository", "get_many", "none", <<>>, None, 0, ks, <<>>, None),
              Request("get_many", <<>>, <<>>, 0, ks, <<>>))

Repository_delete(c, key) ==
    /\ pc[c] = "idle"
    /\ Invoke(c, Call("repository", "delete", "none", key, None, 0, <<>>, <<>>, None),
              Request("delete", key, <<>>, 0, <<>>, <<>>))

Repository_delete_many(c, ks) ==
    /\ pc[c] = "idle"
    /\ Invoke(c, Call("repository", "delete_many", "none", <<>>, None, 0, ks, <<>>, None),
              Request("delete_many", <<>>, <<>>, 0, ks, <<>>))

Repository_delete_pattern(c, pattern) ==
    /\ pc[c] = "idle"
    /\ Invoke(c, Call("repository", "delete_pattern", "none", pattern, None, 0, <<>>, <<>>, None),
              Request("delete_pattern", pattern, <<>>, 0, <<>>, <<>>))

(* The application calls a Cache: key derivation and encoding, then the     *)
(* Repository method of the same name (service.py:137-164)                  *)

Cache_set(c, self, key, value, expire, version) ==
    /\ pc[c] = "idle"
    /\ LET cl == Call("cache", "set", self, key, value, expire, <<>>, <<>>, version)
           d == dumps(value)
       IN  IF d.exc # "none" THEN Raise(c, cl, d.exc)
           ELSE Invoke(c, cl, Request("set", make_key(cache[self], key, version), d.bytes,
                                      expire, <<>>, <<>>))

Cache_set_nx(c, self, key, value, expire, version) ==
    /\ pc[c] = "idle"
    /\ LET cl == Call("cache", "set_nx", self, key, value, expire, <<>>, <<>>, version)
           d == dumps(value)
       IN  IF d.exc # "none" THEN Raise(c, cl, d.exc)
           ELSE Invoke(c, cl, Request("set_nx", make_key(cache[self], key, version), d.bytes,
                                      expire, <<>>, <<>>))

RECURSIVE DeriveData(_, _, _, _)
\* the loop of Cache.set_many: _data[make_key(key, version)] = dumps(value)
DeriveData(self, data, version, _data) ==
    IF data = <<>> THEN [exc |-> "none", data |-> _data]
    ELSE LET d == dumps(Head(data)[2])
         IN  IF d.exc # "none" THEN [exc |-> d.exc, data |-> <<>>]
             ELSE DeriveData(self, Tail(data), version,
                             DictSet(_data, make_key(self, Head(data)[1], version), d.bytes))

Cache_set_many(c, self, data, expire, version) ==
    /\ pc[c] = "idle"
    /\ LET cl == Call("cache", "set_many", self, <<>>, None, expire, <<>>, data, version)
           d == DeriveData(cache[self], data, version, <<>>)
       IN  IF d.exc # "none" THEN Raise(c, cl, d.exc)
           ELSE Invoke(c, cl, Request("set_many", <<>>, <<>>, expire, <<>>, d.data))

Cache_get(c, self, key, version) ==
    /\ pc[c] = "idle"
    /\ Invoke(c, Call("cache", "get", self, key, None, 0, <<>>, <<>>, version),
              Request("get", make_key(cache[self], key, version), <<>>, 0, <<>>, <<>>))

Cache_get_many(c, self, ks, version) ==
    /\ pc[c] = "idle"
    /\ Invoke(c, Call("cache", "get_many", self, <<>>, None, 0, ks, <<>>, version),
              Request("get_many", <<>>, <<>>, 0,
                      [i \in 1..Len(ks) |-> make_key(cache[self], ks[i], version)], <<>>))

Cache_delete(c, self, key, version) ==
    /\ pc[c] = "idle"
    /\ Invoke(c, Call("cache", "delete", self, key, None, 0, <<>>, <<>>, version),
              Request("delete", make_key(cache[self], key, version), <<>>, 0, <<>>, <<>>))

Cache_delete_many(c, self, ks, version) ==
    /\ pc[c] = "idle"
    /\ Invoke(c, Call("cache", "delete_many", self, <<>>, None, 0, ks, <<>>, version),
              Request("delete_many", <<>>, <<>>, 0,
                      [i \in 1..Len(ks) |-> make_key(cache[self], ks[i], version)], <<>>))

Cache_delete_pattern(c, self, pattern, version) ==
    /\ pc[c] = "idle"
    /\ Invoke(c, Call("cache", "delete_pattern", self, pattern, None, 0, <<>>, <<>>, version),
              Request("delete_pattern", make_key(cache[self], pattern, version), <<>>, 0,
                      <<>>, <<>>))

\* ICache.make_key called by the application itself (test_key_generation)
Cache_make_key(c, self, key, version) ==
    /\ pc[c] = "idle"
    /\ call' = [call EXCEPT ![c] =
                  Call("cache", "make_key", self, key, None, 0, <<>>, <<>>, version)]
    /\ ret' = [ret EXCEPT ![c] = PyStr(make_key(cache[self], key, version))]
    /\ pc' = [pc EXCEPT ![c] = "done"]
    /\ UNCHANGED <<store, seed, cache, cursor, keys, removed_keys, scanned, reply,
                   exc, invoked, log, entered, exited, disconnected, wiring>>

(* The Repository methods, from inside the session scope *)

\* the commands set_many buffers in its pipeline: MSET, then one EXPIRE a key
Pipeline(r) ==
    <<CmdMSET(r.data)>> \o [i \in 1..Len(r.data) |-> CmdEXPIRE(r.data[i][1], r.expire)]

\* Command with a fault: set_nx checks for the key with one command and
\* writes with another, so the write no longer depends on the store it meets
Command_nx_not_atomic(s, r) ==
    CASE r.op = "set" -> RedisSET(s, r.key, r.value, r.expire, FALSE)
      [] r.op = "set_nx" -> RedisSET(s, r.key, r.value, r.expire, FALSE)
      [] r.op = "set_many" -> RedisEXEC(s, Pipeline(r))
      [] r.op = "get" -> RedisGET(s, r.key)
      [] r.op = "get_many" -> RedisMGET(s, r.keys)
      [] r.op = "delete" -> RedisDEL(s, <<r.key>>)
      [] r.op = "delete_many" -> RedisDEL(s, r.keys)

\* Command with a fault: set writes only a key that is not there yet
Command_set_keeps_first(s, r) ==
    CASE r.op = "set" -> RedisSET(s, r.key, r.value, r.expire, TRUE)
      [] r.op = "set_nx" -> RedisSET(s, r.key, r.value, r.expire, TRUE)
      [] r.op = "set_many" -> RedisEXEC(s, Pipeline(r))
      [] r.op = "get" -> RedisGET(s, r.key)
      [] r.op = "get_many" -> RedisMGET(s, r.keys)
      [] r.op = "delete" -> RedisDEL(s, <<r.key>>)
      [] r.op = "delete_many" -> RedisDEL(s, r.keys)

\* the store command a Repository method awaits, run on store s
Command(s, r) ==
    CASE r.op = "set" -> RedisSET(s, r.key, r.value, r.expire, FALSE)
      [] r.op = "set_nx" -> RedisSET(s, r.key, r.value, r.expire, TRUE)
      [] r.op = "set_many" -> RedisEXEC(s, Pipeline(r))
      [] r.op = "get" -> RedisGET(s, r.key)
      [] r.op = "get_many" -> RedisMGET(s, r.keys)
      [] r.op = "delete" -> RedisDEL(s, <<r.key>>)
      [] r.op = "delete_many" -> RedisDEL(s, r.keys)

\* the awaited command has run with outcome o; the method leaves the scope
\* with `result`, or with the store's rejection
Finish(c, o, result) ==
    /\ store' = o.store
    /\ log' = Append(log, c)
    /\ reply' = [reply EXCEPT ![c] = IF o.err THEN @ ELSE result]
    /\ exc' = [exc EXCEPT ![c] = IF o.err THEN "ResponseError" ELSE @]
    /\ pc' = [pc EXCEPT ![c] = "exit"]
    /\ disconnected' = [disconnected EXCEPT ![c] = FALSE]
    /\ UNCHANGED <<seed, cache, call, cursor, keys, removed_keys, scanned, ret, invoked,
                   entered, exited, wiring>>

set(c) ==
    /\ pc[c] = "command" /\ Req(c).op = "set"
    /\ Finish(c, Command(store, Req(c)), PyBool(TRUE))

set_nx(c) ==
    /\ pc[c] = "command" /\ Req(c).op = "set_nx"
    /\ LET result == Command(store, Req(c))
       IN  Finish(c, result, PyBool(result.reply # None))

set_many(c) ==
    /\ pc[c] = "command" /\ Req(c).op = "set_many"
    /\ Finish(c, Command(store, Req(c)), PyBool(TRUE))

get(c) ==
    /\ pc[c] = "command" /\ Req(c).op = "get"
    /\ LET result == Command(store, Req(c)) IN Finish(c, result, result.reply)

get_many(c) ==
    /\ pc[c] = "command" /\ Req(c).op = "get_many"
    /\ LET result == Command(store, Req(c)) IN Finish(c, result, result.reply)

delete(c) ==
    /\ pc[c] = "command" /\ Req(c).op = "delete"
    /\ LET result == Command(store, Req(c)) IN Finish(c, result, result.reply)

delete_many(c) ==
    /\ pc[c] = "command" /\ Req(c).op = "delete_many"
    /\ LET result == Command(store, Req(c)) IN Finish(c, result, result.reply)

\* LoopTest with a fault: the loop ends after its first batch
LoopTest_one_batch(c, cur, removed) ==
    /\ pc' = [pc EXCEPT ![c] = "exit"]
    /\ reply' = [reply EXCEPT ![c] = PyInt(removed)]

\* LoopTest with a fault: the cursor is not looked at, the loop goes on
LoopTest_ignores_cursor(c, cur, removed) ==
    /\ pc' = [pc EXCEPT ![c] = "scan"]
    /\ UNCHANGED reply

\* where delete_pattern's loop goes after a batch is dealt with: out of the
\* loop at cursor 0 (returning removed_keys), else to the next scan
LoopTest(c, cur, removed) ==
    /\ pc' = [pc EXCEPT ![c] = IF cur = 0 THEN "exit" ELSE "scan"]
    /\ reply' = [reply EXCEPT ![c] = IF cur = 0 THEN PyInt(removed) ELSE @]

\* delete_pattern: cursor, keys = await session.scan(cursor, match, count)
delete_pattern_scan(c) ==
    /\ pc[c] = "scan"
    /\ \E batch \in ScanBatches(store, IF cursor[c] = 0 THEN {} ELSE scanned[c], chunk_size) :
       \E again \in ScanRepeats(batch, Req(c).key) :
          LET result == RedisSCAN(store, IF cursor[c] = 0 THEN {} ELSE scanned[c],
                                  Req(c).key, chunk_size, batch, again)
          IN  /\ cursor' = [cursor EXCEPT ![c] = result.reply.cursor]
              /\ keys' = [keys EXCEPT ![c] = result.reply.keys]
              /\ scanned' = [scanned EXCEPT ![c] = result.covered]
              /\ IF result.reply.keys # <<>>
                 THEN /\ pc' = [pc EXCEPT ![c] = "delete"]
                      /\ UNCHANGED reply
                 ELSE LoopTest(c, result.reply.cursor, removed_keys[c])
    /\ log' = Append(log, c)
    /\ disconnected' = [disconnected EXCEPT ![c] = FALSE]
    /\ UNCHANGED <<store, seed, cache, call, removed_keys, ret, exc, invoked,
                   entered, exited, wiring>>

\* delete_pattern_delete with a fault: removed_keys += len(keys)
delete_pattern_delete_counts_batch(c) ==
    /\ pc[c] = "delete"
    /\ LET result == RedisDEL(store, keys[c])
       IN  /\ store' = result.store
           /\ removed_keys' = [removed_keys EXCEPT ![c] = @ + Len(keys[c])]
           /\ LoopTest(c, cursor[c], removed_keys[c] + Len(keys[c]))
    /\ log' = Append(log, c)
    /\ disconnected' = [disconnected EXCEPT ![c] = FALSE]
    /\ UNCHANGED <<seed, cache, call, cursor, keys, scanned, ret, exc, invoked,
                   entered, exited, wiring>>

\* delete_pattern: removed_keys += await session.delete(*keys)
delete_pattern_delete(c) ==
    /\ pc[c] = "delete"
    /\ LET result == RedisDEL(store, keys[c])
       IN  /\ store' = result.store
           /\ removed_keys' = [removed_keys EXCEPT ![c] = @ + result.reply.v]
           /\ LoopTest(c, cursor[c], removed_keys[c] + result.reply.v)
    /\ log' = Append(log, c)
    /\ disconnected' = [disconnected EXCEPT ![c] = FALSE]
    /\ UNCHANGED <<seed, cache, call, cursor, keys, scanned, ret, exc, invoked,
                   entered, exited, wiring>>

\* LoadAll with a fault: a value that does not decode is given as None
LoadAll_placeholder(data, acc) ==
    [exc |-> "none",
     json |-> PyList([i \in 1..Len(data) |->
                        IF data[i] = None \/ loads(data[i].v).exc # "none" THEN None
                        ELSE loads(data[i].v).json])]

RECURSIVE LoadAll(_, _)
\* Cache.get_many's comprehension: loads of each value that is not None
LoadAll(data, acc) ==
    IF data = <<>> THEN [exc |-> "none", json |-> PyList(acc)]
    ELSE IF Head(data) = None THEN LoadAll(Tail(data), Append(acc, None))
    ELSE LET l == loads(Head(data).v)
         IN  IF l.exc # "none" THEN [exc |-> l.exc, json |-> None]
             ELSE LoadAll(Tail(data), Append(acc, l.json))

\* Returned with a fault: a Cache decodes whatever get hands it, None too
Returned_decodes_absent(cl, raw) ==
    IF cl.layer = "cache" /\ cl.op = "get"
    THEN IF raw # None THEN loads(raw.v) ELSE [exc |-> "JsonDecodeError", json |-> None]
    ELSE IF cl.layer = "cache" /\ cl.op = "get_many" THEN LoadAll(raw.v, <<>>)
    ELSE [exc |-> "none", json |-> raw]

\* Returned with a fault: a Cache hands on what it read as it is
Returned_raw(cl, raw) == [exc |-> "none", json |-> raw]

\* what the called method makes of the Repository's result: a Cache decodes
\* what it read, and hands every other result on
Returned(cl, raw) ==
    IF cl.layer = "cache" /\ cl.op = "get"
    THEN IF raw # None THEN loads(raw.v) ELSE [exc |-> "none", json |-> None]
    ELSE IF cl.layer = "cache" /\ cl.op = "get_many" THEN LoadAll(raw.v, <<>>)
    ELSE [exc |-> "none", json |-> raw]

\* a caller is suspended in a store command it awaits
InFlight == {"command", "scan", "delete"}

\* await self._session.close(), c leaving its scope: the client is the one
\* object every session wraps, and closing it disconnects the connections of
\* its pool, those carrying another caller's awaited command too
Redis_close(c) ==
    [d \in Callers |-> IF d # c /\ pc[d] \in InFlight THEN TRUE ELSE disconnected[d]]

\* Return with a fault: an operation that leaves with an exception does not
\* close its session
Return_leaks_on_error(c) ==
    /\ pc[c] = "exit"
    /\ pc' = [pc EXCEPT ![c] = "done"]
    /\ exited' = [exited EXCEPT ![c] = IF exc[c] # "none" THEN @ ELSE @ + 1]
    /\ disconnected' = IF exc[c] # "none" THEN disconnected ELSE Redis_close(c)
    /\ IF exc[c] # "none" THEN UNCHANGED <<ret, exc>>
       ELSE LET r == Returned(call[c], reply[c])
            IN  /\ exc' = [exc EXCEPT ![c] = r.exc]
                /\ ret' = [ret EXCEPT ![c] = r.json]
    /\ UNCHANGED <<store, seed, cache, call, cursor, keys, removed_keys, scanned,
                   reply, invoked, log, entered, wiring>>

\* RedisSession.__aexit__ closes the session; the Repository method returns
\* or re-raises, and the method of the Cache that called it finishes
Return(c) ==
    /\ pc[c] = "exit"
    /\ pc' = [pc EXCEPT ![c] = "done"]
    /\ exited' = [exited EXCEPT ![c] = @ + 1]
    /\ disconnected' = Redis_close(c)
    /\ IF exc[c] # "none" THEN UNCHANGED <<ret, exc>>
       ELSE LET r == Returned(call[c], reply[c])
            IN  /\ exc' = [exc EXCEPT ![c] = r.exc]
                /\ ret' = [ret EXCEPT ![c] = r.json]
    /\ UNCHANGED <<store, seed, cache, call, cursor, keys, removed_keys, scanned,
                   reply, invoked, log, entered, wiring>>

\* the awaited command ends in error e raised at its await: the store had
\* run the command or not, and the exception leaves the session scope
Fail(c, e) ==
    /\ \E applied \in BOOLEAN :
          store' = IF ~applied \/ pc[c] = "scan" THEN store
                   ELSE IF pc[c] = "delete" THEN RedisDEL(store, keys[c]).store
                   ELSE Command(store, Req(c)).store
    /\ exc' = [exc EXCEPT ![c] = e]
    /\ pc' = [pc EXCEPT ![c] = "exit"]
    /\ log' = Append(log, c)
    /\ disconnected' = [disconnected EXCEPT ![c] = FALSE]
    /\ UNCHANGED <<seed, cache, call, cursor, keys, removed_keys, scanned, reply,
                   ret, invoked, entered, exited, wiring>>

\* ConnectionLost with a fault: the error is noted and the command is left
\* to be issued again
ConnectionLost_retried(c) ==
    /\ pc[c] \in InFlight
    /\ exc' = [exc EXCEPT ![c] = "ConnectionError"]
    /\ log' = Append(log, c)
    /\ UNCHANGED <<store, seed, cache, pc, call, cursor, keys, removed_keys, scanned,
                   reply, ret, invoked, entered, exited, disconnected, wiring>>

\* the connection fails under an awaited command: the method raises the
\* driver's error, whether the store had run the command or not
ConnectionLost(c) ==
    /\ pc[c] \in InFlight
    /\ Fail(c, "ConnectionError")

\* the connection carrying the awaited command was disconnected by another
\* operation's close: the command's read fails with the driver's error
Disconnected(c) ==
    /\ pc[c] \in InFlight
    /\ disconnected[c]
    /\ Fail(c, "ConnectionError")

\* the caller's task is cancelled at the await it is suspended in. At a store
\* command CancelledError is raised there and leaves through the session
\* scope; at the close of __aexit__ it ends the close, which has or has not
\* disconnected the pool by then, and takes the place of the operation's
\* result or exception
Cancel(c) ==
    \/ /\ pc[c] \in InFlight
       /\ Fail(c, "CancelledError")
    \/ /\ pc[c] = "exit"
       /\ pc' = [pc EXCEPT ![c] = "done"]
       /\ exc' = [exc EXCEPT ![c] = "CancelledError"]
       /\ exited' = [exited EXCEPT ![c] = @ + 1]
       /\ disconnected' \in {disconnected, Redis_close(c)}
       /\ UNCHANGED <<store, seed, cache, call, cursor, keys, removed_keys, scanned,
                      reply, ret, invoked, log, entered, wiring>>

-----------------------------------------------------------------------------
(* Initial states and inputs *)

\* ICache.__init__'s defaults
\* an argument the constructor's caller leaves out
Omitted == [t |-> "omitted", v |-> 0]

\* ICache.__init__(key_prefix="cache", version=1)
ICache_init(key_prefix, version) ==
    [key_prefix |-> IF key_prefix = Omitted THEN <<"c", "a", "c", "h", "e">> ELSE key_prefix.v,
     version |-> IF version = Omitted THEN PyInt(1) ELSE version]

DefaultConfig == ICache_init(Omitted, Omitted)

Caches == {"cache1", "cache2"}

Expirations == {100, 200}

\* a DSN
redis_a == <<"r", "e", "d", "i", "s", ":", "/", "/", "a">>

\* nothing constructed yet
NoWiring ==
    [_instances |-> [cls \in {} |-> 0], connection |-> <<>>,
     session |-> [r \in {} |-> [dsn |-> <<>>, _session |-> 0]]]

\* SingletonMeta.__call__ for RedisConnection(dsn=dsn): the class's instance
\* if it has one, else a new RedisConnection whose client is from_url(dsn)
SingletonMeta_call(w, dsn) ==
    IF "RedisConnection" \notin DOMAIN w._instances
    THEN [w EXCEPT !._instances = [cls \in {"RedisConnection"} |-> Len(w.connection) + 1],
                   !.connection = Append(w.connection, dsn)]
    ELSE w

\* RedisCacheRepository.__init__(dsn): the session wraps the client of
\* RedisConnection(dsn=dsn)
Construct(w, r, dsn) ==
    LET made == SingletonMeta_call(w, dsn)
    IN  [made EXCEPT !.session =
            [x \in DOMAIN w.session \cup {r} |->
                IF x = r THEN [dsn |-> dsn, _session |-> made._instances["RedisConnection"]]
                ELSE w.session[x]]]

\* no caller has called yet
NoCalls ==
    /\ pc = [c \in Callers |-> "idle"]
    /\ call = [c \in Callers |-> NoCall]
    /\ cursor = [c \in Callers |-> 0]
    /\ keys = [c \in Callers |-> <<>>]
    /\ removed_keys = [c \in Callers |-> 0]
    /\ scanned = [c \in Callers |-> {}]
    /\ reply = [c \in Callers |-> None]
    /\ ret = [c \in Callers |-> None]
    /\ exc = [c \in Callers |-> "none"]
    /\ invoked = [c \in Callers |-> <<>>]
    /\ log = <<>>
    /\ entered = [c \in Callers |-> 0]
    /\ exited = [c \in Callers |-> 0]
    /\ disconnected = [c \in Callers |-> FALSE]

\* the state after construction: the store holds one of `seeds`, each Cache
\* has one of `configs` and wraps the one Repository, made for DSN redis_a;
\* no caller has called yet
InitWith(seeds, configs) ==
    /\ store \in seeds
    /\ seed = store
    /\ cache \in [Caches -> configs]
    /\ NoCalls
    /\ LET w == Construct(NoWiring, "repository", redis_a)
       IN  /\ _instances = w._instances
           /\ connection = w.connection
           /\ session = w.session

ka == <<"a">>
kb == <<"b">>
v1 == <<"1">>
v2 == <<"2">>
v0 == <<"0">>

Entry(value, ttl) == [val |-> value, ttl |-> ttl]

-----------------------------------------------------------------------------
(* set_nx under concurrency *)

NxSeeds == {EmptyStore, Put(EmptyStore, kb, Entry(v0, 300))}

InitNx == InitWith(NxSeeds, {DefaultConfig})

NextNx ==
    \E c \in Callers :
        \/ \E key \in {ka, kb}, value \in {v1, v2}, expire \in Expirations :
              Repository_set_nx(c, key, value, expire)
        \/ set_nx(c)
        \/ Return(c)

SpecNx == InitNx /\ [][NextNx]_vars

\* the caller's store command has run
Executed(c) == pc[c] \in {"exit", "done"}

\* the caller's operation has returned or raised
Finished(c) == pc[c] = "done"

\* caller a's store command ran before caller b's
Before(a, b) == \E i, j \in 1..Len(log) : i < j /\ log[i] = a /\ log[j] = b

\* the callers that ran set_nx on key k, and the one that ran first
NxCalls(k) == {c \in Callers : Executed(c) /\ Req(c).op = "set_nx" /\ Req(c).key = k}

FirstNx(k) == CHOOSE c \in NxCalls(k) : \A d \in NxCalls(k) \ {c} : Before(c, d)

\* C1: of two successive set_nx calls on a key that was absent, the first
\* returns True and stores its value with its expiration; the second returns
\* False and leaves the stored value and the first call's expiration as they are
C1_SetNxTwice ==
    \A a, b \in Callers :
        LET k == Req(a).key
        IN  (/\ a # b /\ Finished(a) /\ Finished(b)
             /\ a \in NxCalls(k) /\ b \in NxCalls(k)
             /\ k \notin DOMAIN seed
             /\ a = FirstNx(k)
             /\ \A d \in NxCalls(k) \ {a, b} : Before(b, d))
            => /\ ret[a] = PyBool(TRUE)
               /\ ret[b] = PyBool(FALSE)
               /\ store[k] = Entry(Req(a).value, Req(a).expire)

\* two successive set_nx calls with different values and expirations have
\* returned, the second after the first
C1_Witness ==
    \E a, b \in Callers :
        /\ a # b /\ Finished(a) /\ Finished(b)
        /\ Req(a).op = "set_nx" /\ Req(b).op = "set_nx"
        /\ Req(a).key = Req(b).key /\ Req(a).key \notin DOMAIN seed
        /\ Req(a).value # Req(b).value /\ Req(a).expire # Req(b).expire
        /\ Before(a, b)
        /\ ret[b] = PyBool(FALSE)

\* C2: whatever the interleaving of concurrent set_nx calls on a key that
\* was absent, exactly one of them gets True, every other gets False, and
\* the key holds the value of the one that got True
C2_SetNxAtomic ==
    \A k \in {Req(c).key : c \in {d \in Callers : Executed(d)}} :
        (k \notin DOMAIN seed /\ NxCalls(k) # {})
        => \E w \in NxCalls(k) :
              /\ reply[w] = PyBool(TRUE)
              /\ \A c \in NxCalls(k) \ {w} : reply[c] = PyBool(FALSE)
              /\ \A c \in NxCalls(k) : Finished(c) => ret[c] = reply[c]
              /\ k \in DOMAIN store /\ store[k].val = Req(w).value

\* two set_nx calls on one absent key were in flight together, and both
\* commands have run: one won
C2_Witness ==
    \E a, b \in Callers :
        /\ a # b /\ pc[a] = "exit" /\ pc[b] = "exit"
        /\ Req(a).op = "set_nx" /\ Req(b).op = "set_nx"
        /\ Req(a).key = Req(b).key /\ Req(a).key \notin DOMAIN seed
        /\ Req(a).value # Req(b).value
        /\ reply[a] = PyBool(TRUE) /\ reply[b] = PyBool(FALSE)

-----------------------------------------------------------------------------
(* set_many among other clients and failures *)

ManySeeds == {EmptyStore, Put(EmptyStore, kb, Entry(v0, 300))}

\* the dicts given to set_many, as their items in insertion order
ManyData == {<<>>, <<<<ka, v1>>>>, <<<<ka, v1>>, <<kb, v2>>>>, <<<<kb, v2>>, <<ka, v2>>>>}

\* expirations of set_many: int has no upper limit in Python
ManyExpirations == Expirations \cup {ExpireLimit + 1}

InitMany == InitWith(ManySeeds, {DefaultConfig})

NextMany ==
    \E c \in Callers :
        \/ \E data \in ManyData, expire \in ManyExpirations :
              Repository_set_many(c, data, expire)
        \/ \E key \in {ka, kb}, expire \in Expirations : Repository_set(c, key, v0, expire)
        \/ \E key \in {ka, kb} : Repository_delete(c, key)
        \/ set_many(c)
        \/ set(c)
        \/ delete(c)
        \/ ConnectionLost(c)
        \/ Return(c)

SpecMany == InitMany /\ [][NextMany]_vars

\* store s with every item of data written with expiration expire
WithAll(s, data, expire) ==
    [x \in DOMAIN s \cup {data[i][1] : i \in 1..Len(data)} |->
        IF \E i \in 1..Len(data) : data[i][1] = x
        THEN Entry(data[CHOOSE i \in 1..Len(data) : data[i][1] = x][2], expire)
        ELSE s[x]]

\* C3: whatever a set_many call's step does to the store, among other
\* clients and on every failure, it writes either nothing or every provided
\* key with its value and the expiration `expire`; a call that completes has
\* written them all and returns True
C3_SetManyAtomic ==
    [][\A c \in Callers :
          /\ (pc[c] = "command" /\ Req(c).op = "set_many" /\ pc'[c] = "exit")
             => /\ \/ store' = store
                   \/ store' = WithAll(store, Req(c).data, Req(c).expire)
                /\ exc'[c] = "none"
                   => /\ store' = WithAll(store, Req(c).data, Req(c).expire)
                      /\ reply'[c] = PyBool(TRUE)
          /\ (pc[c] = "exit" /\ Req(c).op = "set_many" /\ pc'[c] = "done" /\ exc'[c] = "none")
             => ret'[c] = PyBool(TRUE)]_vars

-----------------------------------------------------------------------------
(* delete_pattern with no other actor *)

hello == <<"h", "e", "l", "l", "o">>
hallo == <<"h", "a", "l", "l", "o">>
hbllo == <<"h", "b", "l", "l", "o">>
hxllo == <<"h", "x", "l", "l", "o">>
hllo == <<"h", "l", "l", "o">>
not_a_pattern == <<"n", "o", "t", "-", "a", "-", "p", "a", "t", "t", "e", "r", "n">>

PatternKeys == {hello, hallo, hbllo, hxllo, hllo, not_a_pattern}

\* the patterns of IRepository.delete_pattern's docstring
Patterns ==
    {<<"h", "?", "l", "l", "o">>,
     <<"h", "*", "l", "l", "o">>,
     <<"h", "[", "a", "e", "]", "l", "l", "o">>,
     <<"h", "[", "^", "e", "]", "l", "l", "o">>,
     <<"h", "[", "a", "-", "b", "]", "l", "l", "o">>}

\* stores of four keys or more, with different values, and the empty store
PatternSeeds ==
    {[k \in ks |-> Entry(k, 100)] : ks \in {x \in SUBSET PatternKeys : Cardinality(x) >= 4}}
    \cup {EmptyStore}

InitPattern == InitWith(PatternSeeds, {DefaultConfig})

\* no other caller has called
Alone(c) == \A d \in Callers \ {c} : pc[d] = "idle"

NextPattern ==
    \E c \in Callers :
        \/ \E pattern \in Patterns : Alone(c) /\ Repository_delete_pattern(c, pattern)
        \/ delete_pattern_scan(c)
        \/ delete_pattern_delete(c)
        \/ Return(c)

SpecPattern == InitPattern /\ [][NextPattern]_vars

\* what the documented pattern elements stand for: a pattern as a sequence
\* of elements, each `*` or a set of characters one of which is taken
Star == [star |-> TRUE, chars |-> {}]

One(chars) == [star |-> FALSE, chars |-> chars]

AnyChar == One(SeqToSet(Ascii))

Meaning(pattern) ==
    LET h == One({"h"})
        llo == <<One({"l"}), One({"l"}), One({"o"})>>
    IN  CASE pattern = <<"h", "?", "l", "l", "o">> -> <<h, AnyChar>> \o llo
          [] pattern = <<"h", "*", "l", "l", "o">> -> <<h, Star>> \o llo
          [] pattern = <<"h", "[", "a", "e", "]", "l", "l", "o">> -> <<h, One({"a", "e"})>> \o llo
          [] pattern = <<"h", "[", "^", "e", "]", "l", "l", "o">> ->
                <<h, One(SeqToSet(Ascii) \ {"e"})>> \o llo
          [] pattern = <<"h", "[", "a", "-", "b", "]", "l", "l", "o">> ->
                <<h, One({"a", "b"})>> \o llo

RECURSIVE Denotes(_, _)
\* the key is in the language of the elements
Denotes(elements, key) ==
    IF elements = <<>> THEN key = <<>>
    ELSE IF Head(elements).star
    THEN \E n \in 0..Len(key) : Denotes(Tail(elements), SubSeq(key, n + 1, Len(key)))
    ELSE /\ key # <<>>
         /\ key[1] \in Head(elements).chars
         /\ Denotes(Tail(elements), Tail(key))

\* the keys of store s the pattern stands for
Matching(s, pattern) == {k \in DOMAIN s : Denotes(Meaning(pattern), k)}

\* C4: a delete_pattern call that ran with no other actor has removed
\* exactly the keys the glob pattern matches, left every other key with its
\* value, and returned the number of keys that matched
C4_DeletePatternExact ==
    \A c \in Callers :
        (Finished(c) /\ exc[c] = "none" /\ Req(c).op = "delete_pattern" /\ Alone(c))
        => /\ store = Drop(seed, Matching(seed, Req(c).key))
           /\ ret[c] = PyInt(Cardinality(Matching(seed, Req(c).key)))

\* a call has returned that met its matching keys in more than one scan
\* batch, and a batch without any
C4_Witness ==
    \E c \in Callers :
        /\ Finished(c) /\ Req(c).op = "delete_pattern"
        /\ Cardinality(Matching(seed, Req(c).key)) >= 3
        /\ DOMAIN store # {}
        /\ Len(log) >= 6

-----------------------------------------------------------------------------
(* get_many, of the Repository and of a Cache, on a store nobody writes *)

kc == <<"c">>

\* all lists of at most n elements of set S
ListsOf(S, n) == UNION {[1..m -> S] : m \in 0..n}

\* what the application has cached under its keys
Cached(k) == IF k = ka THEN PyList(<<PyInt(7), PyStr(<<"x">>)>>) ELSE PyBool(FALSE)

\* stores holding some keys plainly, as bytes, and the same keys as a Cache
\* with the default configuration derives them, as JSON
ReadSeeds ==
    {[k \in ks \cup {make_key(DefaultConfig, x, None) : x \in ks} |->
        IF k \in ks THEN Entry(k \o v1, 100) ELSE Entry(dumps(Cached(SubSeq(k, 9, Len(k)))).bytes, 100)]
     : ks \in SUBSET {ka, kb}}

InitRead == InitWith(ReadSeeds, {DefaultConfig})

NextRead ==
    \E c \in Callers :
        \/ \E ks \in ListsOf({ka, kb, kc}, MaxListLen) : Repository_get_many(c, ks)
        \/ \E self \in Caches, ks \in ListsOf({ka, kb, kc}, MaxListLen),
              version \in {None, PyInt(1), PyInt(2)} : Cache_get_many(c, self, ks, version)
        \/ get_many(c)
        \/ Return(c)

SpecRead == InitRead /\ [][NextRead]_vars

\* what position i of the result is to hold for key k of the call
Held(cl, k) ==
    IF cl.layer = "repository"
    THEN IF k \in DOMAIN seed THEN PyBytes(seed[k].val) ELSE None
    ELSE IF make_key(cache[cl.inst], k, cl.version) \in DOMAIN seed THEN Cached(k) ELSE None

\* C5: get_many returns a list as long as the key list, whose position i is
\* the value stored under key i (decoded, at a Cache), or None when nothing
\* is stored under it
C5_GetManyPositions ==
    \A c \in Callers :
        (Finished(c) /\ exc[c] = "none" /\ call[c].op = "get_many")
        => /\ ret[c].t = "list"
           /\ Len(ret[c].v) = Len(call[c].keys)
           /\ \A i \in 1..Len(call[c].keys) : ret[c].v[i] = Held(call[c], call[c].keys[i])

\* a Cache and the Repository have each returned a list with a present and
\* an absent position, in both orders
C5_Witness ==
    \E a, b \in Callers :
        /\ Finished(a) /\ call[a].op = "get_many" /\ call[a].layer = "cache"
        /\ Finished(b) /\ call[b].op = "get_many" /\ call[b].layer = "repository"
        /\ ret[a] = PyList(<<None, Cached(ka)>>)
        /\ ret[b] = PyList(<<PyBytes(ka \o v1), None>>)

-----------------------------------------------------------------------------
(* delete and delete_many among writers *)

DeleteSeeds == {[k \in ks |-> Entry(k \o v1, 100)] : ks \in SUBSET {ka, kb}}

InitDelete == InitWith(DeleteSeeds, {DefaultConfig})

NextDelete ==
    \E c \in Callers :
        \/ \E key \in {ka, kb, kc} : Repository_delete(c, key)
        \/ \E ks \in ListsOf({ka, kb, kc}, MaxListLen) : Repository_delete_many(c, ks)
        \/ \E key \in {ka, kb} : Repository_set(c, key, v2, 200)
        \/ delete(c)
        \/ delete_many(c)
        \/ set(c)
        \/ Return(c)

SpecDelete == InitDelete /\ [][NextDelete]_vars

\* the caller's Repository operation `op` runs its store command in this step
Runs(c, op) == pc[c] = "command" /\ Req(c).op = op /\ pc'[c] = "exit"

\* the caller's operation `op` returns in this step
Returns(c, op) == pc[c] = "exit" /\ call[c].op = op /\ pc'[c] = "done" /\ exc'[c] = "none"

\* C6: delete_many returns the number of distinct listed keys that existed
\* before the call, and none of the listed keys exists after it
C6_DeleteManyCount ==
    [][\A c \in Callers :
          /\ Runs(c, "delete_many")
             => /\ exc'[c] = "none"
                /\ reply'[c] = PyInt(Cardinality(SeqToSet(Req(c).keys) \cap DOMAIN store))
                /\ SeqToSet(Req(c).keys) \cap DOMAIN store' = {}
          /\ Returns(c, "delete_many") => ret'[c] = reply[c]]_vars

\* C7: delete returns 1 and the key is gone when the key existed; it
\* returns 0 and changes nothing when it did not; every other key keeps its
\* value and expiration
C7_DeleteOne ==
    [][\A c \in Callers :
          /\ Runs(c, "delete")
             => /\ exc'[c] = "none"
                /\ Req(c).key \in DOMAIN store
                   => reply'[c] = PyInt(1) /\ Req(c).key \notin DOMAIN store'
                /\ Req(c).key \notin DOMAIN store
                   => reply'[c] = PyInt(0) /\ store' = store
                /\ \A k \in DOMAIN store \ {Req(c).key} :
                      k \in DOMAIN store' /\ store'[k] = store[k]
          /\ Returns(c, "delete") => ret'[c] = reply[c]]_vars

\* one delete has returned 1 and another 0, and a key they did not name is
\* still there
C7_Witness ==
    \E a, b \in Callers :
        /\ Finished(a) /\ call[a].op = "delete" /\ ret[a] = PyInt(1)
        /\ Finished(b) /\ call[b].op = "delete" /\ ret[b] = PyInt(0)
        /\ Req(a).key \in DOMAIN seed
        /\ DOMAIN store # {}

-----------------------------------------------------------------------------
(* The Cache facade over the Repository *)

app == <<"a", "p", "p">>

Configs == {DefaultConfig, ICache_init(PyStr(app), PyInt(10))}

Versions == {None, PyInt(1), PyStr(<<"v">>)}

seven == PyInt(7)
pair == PyList(<<PyInt(7), PyStr(<<"x">>)>>)

FacadeValues == {seven, pair, PyDecimal(<<"1">>)}

\* the dicts given to Cache.set_many, as their items in insertion order
FacadeData == {<<<<ka, seven>>>>, <<<<kb, pair>>, <<ka, seven>>>>, <<<<ka, seven>>, <<kb, PyDecimal(<<"1">>)>>>>}

\* key a as every configured Cache derives it, holding JSON
FacadeSeeds ==
    {EmptyStore,
     [k \in {make_key(cfg, ka, None) : cfg \in Configs} |->
        Entry(<<"[", "7", ",", "\"", "x", "\"", "]">>, 100)]}

InitFacade == InitWith(FacadeSeeds, Configs)

NextFacade ==
    \/ \E c \in Callers, self \in Caches, version \in Versions :
          \/ \E value \in FacadeValues, expire \in Expirations :
                Alone(c) /\ Cache_set(c, self, ka, value, expire, version)
          \/ \E value \in FacadeValues : Alone(c) /\ Cache_set_nx(c, self, ka, value, 100, version)
          \/ \E data \in FacadeData : Alone(c) /\ Cache_set_many(c, self, data, 100, version)
          \/ \E key \in {ka, kb} : Alone(c) /\ Cache_get(c, self, key, version)
          \/ \E ks \in ListsOf({ka, kb}, MaxListLen) :
                Alone(c) /\ Cache_get_many(c, self, ks, version)
          \/ \E key \in {ka, kb} : Alone(c) /\ Cache_delete(c, self, key, version)
          \/ \E ks \in ListsOf({ka, kb}, MaxListLen) :
                Alone(c) /\ Cache_delete_many(c, self, ks, version)
          \/ \E pattern \in {<<"*">>, <<"?">>} :
                Alone(c) /\ Cache_delete_pattern(c, self, pattern, version)
          \/ \E key \in {ka, kb} : Cache_make_key(c, self, key, version)
    \/ \E c \in Callers :
          \/ set(c) \/ set_nx(c) \/ set_many(c) \/ get(c) \/ get_many(c)
          \/ delete(c) \/ delete_many(c) \/ delete_pattern_scan(c) \/ delete_pattern_delete(c)
          \/ Return(c)

SpecFacade == InitFacade /\ [][NextFacade]_vars

\* the text of a version in a key
Shown(version) ==
    CASE version = PyInt(1) -> <<"1">>
      [] version = PyInt(10) -> <<"1", "0">>
      [] version = PyStr(<<"v">>) -> <<"v">>

\* "{prefix}:{version}:{logical_key}", the version being the override when
\* one is given and the configured default otherwise
Derived(cfg, k, version) ==
    cfg.key_prefix \o <<":">> \o Shown(IF version = None THEN cfg.version ELSE version)
        \o <<":">> \o k

MadeKey(c) == Finished(c) /\ call[c].op = "make_key"

KeysDerived ==
    /\ \A c \in Callers :
          MadeKey(c)
          => /\ ret[c] = PyStr(Derived(cache[call[c].inst], call[c].key, call[c].version))
             /\ (cache[call[c].inst] = ICache_init(Omitted, Omitted) /\ call[c].version = None)
                => ret[c] = PyStr(<<"c", "a", "c", "h", "e", ":", "1", ":">> \o call[c].key)
    /\ \A a, b \in Callers :
          (/\ MadeKey(a) /\ MadeKey(b)
           /\ cache[call[a].inst] = cache[call[b].inst]
           /\ call[a].key = call[b].key)
          => /\ call[a].version = call[b].version => ret[a] = ret[b]
             /\ (call[a].version = None /\ call[b].version = cache[call[b].inst].version)
                => ret[a] = ret[b]

\* C8: make_key yields exactly "{prefix}:{version}:{logical_key}" (prefix
\* "cache" and version 1 by default); calls with the same arguments on Caches
\* of the same configuration yield the same string, whatever else has run;
\* make_key(k) equals make_key(k, default version); and no operation changes
\* a Cache's prefix or default version
C8_KeyDerivation == [][cache' = cache /\ KeysDerived']_vars

\* two Caches of the default configuration have derived one key, one with
\* no override and one with the default version as override
C8_Witness ==
    \E a, b \in Callers :
        /\ MadeKey(a) /\ MadeKey(b) /\ call[a].inst # call[b].inst
        /\ cache[call[a].inst] = DefaultConfig /\ cache[call[b].inst] = DefaultConfig
        /\ call[a].version = None /\ call[b].version = PyInt(1)
        /\ ret[a] = PyStr(<<"c", "a", "c", "h", "e", ":", "1", ":", "a">>)

\* the JSON text of a value
JsonText(x) ==
    CASE x = seven -> <<"7">>
      [] x = pair -> <<"[", "7", ",", "\"", "x", "\"", "]">>

\* the value a JSON text stands for
JsonValue(text) == CHOOSE x \in {seven, pair} : JsonText(x) = text

\* the one Repository invocation a Cache operation is to make
Delegated(cl) ==
    LET cfg == cache[cl.inst]
        single == cl.op \in {"set", "set_nx", "get", "delete", "delete_pattern"}
    IN  [op |-> cl.op,
         key |-> IF single THEN Derived(cfg, cl.key, cl.version) ELSE <<>>,
         value |-> IF cl.op \in {"set", "set_nx"} THEN JsonText(cl.value) ELSE <<>>,
         expire |-> cl.expire,
         keys |-> [i \in 1..Len(cl.keys) |-> Derived(cfg, cl.keys[i], cl.version)],
         data |-> [i \in 1..Len(cl.data) |->
                     <<Derived(cfg, cl.data[i][1], cl.version), JsonText(cl.data[i][2])>>]]

\* what a Cache operation is to return, given the Repository's result
Handed(cl, raw) ==
    CASE cl.op = "get" -> IF raw = None THEN None ELSE JsonValue(raw.v)
      [] cl.op = "get_many" ->
            PyList([i \in 1..Len(raw.v) |->
                      IF raw.v[i] = None THEN None ELSE JsonValue(raw.v[i].v)])
      [] OTHER -> raw

\* the caller has called an operation of a Cache that reaches the Repository
Delegating(c) ==
    call[c].layer = "cache" /\ call[c].op # "make_key" /\ exc[c] # "JsonEncodeError"

\* C9: a Cache operation invokes the Repository operation of the same name
\* once and no other, with the derived keys in input order, the JSON-encoded
\* values and the expiration as given, and returns the Repository's result,
\* decoded for reads
C9_FacadeDelegates ==
    \A c \in Callers :
        Delegating(c)
        => /\ invoked[c] = <<Delegated(call[c])>>
           /\ (Finished(c) /\ exc[c] = "none") => ret[c] = Handed(call[c], reply[c])

\* a Cache's get_many has returned a decoded value and an absent position
C9_Witness ==
    \E c \in Callers :
        /\ Finished(c) /\ call[c].layer = "cache" /\ call[c].op = "get_many"
        /\ call[c].version = PyStr(<<"v">>) \/ call[c].version = None
        /\ ret[c] = PyList(<<pair, None>>)

-----------------------------------------------------------------------------
(* Values through a Cache: set, then get *)

JsonAtoms ==
    {None, PyBool(TRUE), PyBool(FALSE), PyInt(0), PyInt(7), PyInt(-12),
     PyStr(<<>>), PyStr(<<"7">>), PyStr(<<"a", "\"", "\\", "b">>),
     PyFloat(FALSE, 1, <<"5">>), PyFloat(TRUE, 0, <<"2", "5">>)}

\* values of the JSON alias, and a Decimal, that have no JSON text of their own
OtherAtoms ==
    {PyNonFinite("inf"), PyNonFinite("nan"), PyUUID(<<"1", "-", "a">>), PyDecimal(<<"1">>)}

ListsOver(S) == {PyList(xs) : xs \in ListsOf(S, MaxListLen)}

DictsOver(S) ==
    {PyDict(<<>>)} \cup {PyDict(<<<<<<"k">>, x>>>>) : x \in S}
    \cup {PyDict(<<<<<<"k">>, x>>, <<<<>>, PyInt(7)>>>>) : x \in S}

CodecValues ==
    LET flat == JsonAtoms \cup OtherAtoms
        inner == {PyList(<<>>), PyList(<<PyInt(7), None>>), PyDict(<<<<<<"k">>, PyStr(<<"7">>)>>>>),
                  PyList(<<PyUUID(<<"1", "-", "a">>)>>)}
    IN  flat \cup ListsOver(flat) \cup DictsOver(flat) \cup ListsOver(inner) \cup DictsOver(inner)

InitCodec == InitWith({EmptyStore, Put(EmptyStore, make_key(DefaultConfig, ka, None), Entry(<<"0">>, 100))},
                      {DefaultConfig})

NextCodec ==
    \/ \E c \in Callers, self \in Caches :
          \/ \E value \in CodecValues : Alone(c) /\ Cache_set(c, self, ka, value, 100, None)
          \/ Cache_get(c, self, ka, None)
    \/ \E c \in Callers : set(c) \/ get(c) \/ Return(c)

SpecCodec == InitCodec /\ [][NextCodec]_vars

RECURSIVE JsonRepresentable(_)
\* a JSON value: null, a boolean, a number, a string, an array or an object
\* of JSON values; a UUID counts as its string
JsonRepresentable(x) ==
    CASE x.t \in {"NoneType", "bool", "int", "str", "UUID"} -> TRUE
      [] x.t = "float" -> x.v.kind = "finite"
      [] x.t = "list" -> \A i \in 1..Len(x.v) : JsonRepresentable(x.v[i])
      [] x.t = "dict" -> \A i \in 1..Len(x.v) : JsonRepresentable(x.v[i][2])
      [] OTHER -> FALSE

RECURSIVE ContainsUUID(_)
ContainsUUID(x) ==
    CASE x.t = "UUID" -> TRUE
      [] x.t = "list" -> \E i \in 1..Len(x.v) : ContainsUUID(x.v[i])
      [] x.t = "dict" -> \E i \in 1..Len(x.v) : ContainsUUID(x.v[i][2])
      [] OTHER -> FALSE

\* caller b's get read what caller a's set wrote: same key of Caches of one
\* configuration, the get's command after the set's and no other write between
ReadsBack(a, b) ==
    /\ Finished(a) /\ exc[a] = "none" /\ call[a].layer = "cache" /\ call[a].op = "set"
    /\ Finished(b) /\ exc[b] = "none" /\ call[b].layer = "cache" /\ call[b].op = "get"
    /\ Req(a).key = Req(b).key
    /\ Before(a, b)
    /\ \A c \in Callers \ {a, b} : ~(Before(a, c) /\ Before(c, b))

-----------------------------------------------------------------------------
(* Writes through a Cache of values that JSON cannot hold *)

blob == PyBytes(<<"x">>)
decimal == PyDecimal(<<"1">>)
nan == PyNonFinite("nan")

EncodeValues ==
    {seven, pair, PyUUID(<<"1", "-", "a">>), decimal, blob, nan, PyNonFinite("inf"),
     PyList(<<seven, decimal>>), PyDict(<<<<<<"k">>, blob>>>>)}

\* dicts given to Cache.set_many: without a fault, and with one value that
\* JSON cannot hold at the first, a middle and the last position
EncodeData ==
    {<<<<ka, seven>>, <<kb, pair>>, <<kc, seven>>>>}
    \cup UNION {{<<<<ka, x>>, <<kb, pair>>, <<kc, seven>>>>,
                 <<<<ka, seven>>, <<kb, x>>, <<kc, seven>>>>,
                 <<<<ka, seven>>, <<kb, pair>>, <<kc, x>>>>} : x \in {decimal, blob, nan}}

EncodeSeeds ==
    {EmptyStore, Put(EmptyStore, make_key(DefaultConfig, ka, None), Entry(<<"0">>, 300))}

InitEncode == InitWith(EncodeSeeds, {DefaultConfig})

NextEncode ==
    \/ \E c \in Callers, self \in Caches, version \in {None, PyInt(2)} :
          \/ \E value \in EncodeValues : Cache_set(c, self, ka, value, 100, version)
          \/ \E value \in EncodeValues : Cache_set_nx(c, self, ka, value, 100, version)
          \/ \E data \in EncodeData : Cache_set_many(c, self, data, 100, version)
    \/ \E c \in Callers : set(c) \/ set_nx(c) \/ set_many(c) \/ Return(c)

SpecEncode == InitEncode /\ [][NextEncode]_vars

\* the values a write of a Cache was given
Given(cl) ==
    IF cl.op = "set_many" THEN {cl.data[i][2] : i \in 1..Len(cl.data)} ELSE {cl.value}

\* the caller has called a write of a Cache with a value, or an entry, that
\* is not JSON-representable
Unrepresentable(c) ==
    /\ call[c].layer = "cache" /\ call[c].op \in {"set", "set_nx", "set_many"}
    /\ \E x \in Given(call[c]) : ~JsonRepresentable(x)

\* C11: a write of a Cache given a value that is not JSON-representable, as
\* the value or as any entry of the batch, has failed with JsonEncodeError
\* and has invoked nothing of the Repository; the store is as it was when no
\* other call has reached the Repository
C11_EncodeErrorLocal ==
    \A c \in Callers :
        Unrepresentable(c)
        => /\ exc[c] = "JsonEncodeError"
           /\ invoked[c] = <<>>
           /\ pc[c] = "done"
           /\ (\A d \in Callers : invoked[d] = <<>>) => store = seed

-----------------------------------------------------------------------------
(* Reads of keys that are absent, or hold bytes that are not JSON *)

pair_text == <<"[", "7", ",", "\"", "x", "\"", "]">>

\* byte strings that are not a JSON text: nothing, an object and an array
\* left open, a literal cut short
Malformed == {<<>>, <<"{">>, <<"[", "7", ",">>, <<"n", "u", "l">>}

\* stores holding, under keys a and b as a Cache of the default
\* configuration derives them, JSON, malformed bytes or nothing, and under
\* the plain key a malformed bytes or nothing
GetSeeds ==
    {[k \in {x \in {make_key(DefaultConfig, ka, None), make_key(DefaultConfig, kb, None), ka} :
               IF x = ka THEN plain # <<"-">>
               ELSE IF x = make_key(DefaultConfig, ka, None) THEN a # <<"-">> ELSE b # <<"-">>} |->
        Entry(IF k = ka THEN plain ELSE IF k = make_key(DefaultConfig, ka, None) THEN a ELSE b, 100)]
     : a \in {<<"-">>, pair_text, <<"{">>, <<"n", "u", "l">>},
       b \in {<<"-">>, <<"7">>, <<>>, <<"[", "7", ",">>},
       plain \in {<<"-">>, <<"{">>}}

InitGet == InitWith(GetSeeds, {DefaultConfig})

NextGet ==
    \/ \E c \in Callers, version \in {None, PyInt(2)} :
          \/ \E key \in {ka, kb, kc} : Cache_get(c, "cache1", key, version)
          \/ \E ks \in ListsOf({ka, kb, kc}, MaxListLen) :
                Cache_get_many(c, "cache1", ks, version)
    \/ \E c \in Callers :
          \/ \E key \in {ka, kb} : Repository_get(c, key)
          \/ get(c)
          \/ get_many(c)
          \/ Return(c)

SpecGet == InitGet /\ [][NextGet]_vars

\* the bytes the store held under key k are not JSON
HeldMalformed(k) == k \in DOMAIN seed /\ seed[k].val \in Malformed

\* C12: a get of a Cache on a key holding malformed bytes has failed with
\* JsonDecodeError; a get_many with malformed bytes under any one of its keys
\* has failed with JsonDecodeError as a whole and returned no list; and the
\* store is as it was
C12_DecodeErrorWhole ==
    /\ store = seed
    /\ \A c \in Callers :
          (Finished(c) /\ call[c].layer = "cache")
          => /\ (call[c].op = "get" /\ HeldMalformed(Req(c).key))
                => exc[c] = "JsonDecodeError" /\ ret[c] = None
             /\ (call[c].op = "get_many"
                 /\ \E i \in 1..Len(Req(c).keys) : HeldMalformed(Req(c).keys[i]))
                => exc[c] = "JsonDecodeError" /\ ret[c] = None

\* two get_many calls have failed on a list with one valid and one malformed
\* position, the malformed one last and first, and a get has failed
C12_Witness ==
    \E a, b \in Callers :
        /\ Finished(a) /\ call[a].op = "get_many" /\ call[a].keys = <<ka, kb>>
        /\ Finished(b) /\ call[b].op = "get_many" /\ call[b].keys = <<kb, ka>>
        /\ call[a].version = None /\ call[b].version = None
        /\ ~HeldMalformed(Req(a).keys[1]) /\ Req(a).keys[1] \in DOMAIN seed
        /\ HeldMalformed(Req(a).keys[2])
        /\ exc[a] = "JsonDecodeError" /\ exc[b] = "JsonDecodeError"

\* C13: a get, of the Repository or of a Cache, on a key under which nothing
\* is stored gets None from the store and returns None without raising, and
\* no key is created or changed
C13_NotFoundIsAbsent ==
    /\ store = seed
    /\ \A c \in Callers :
          (call[c].op = "get" /\ Req(c).key \notin DOMAIN seed)
          => /\ exc[c] = "none"
             /\ Executed(c) => reply[c] = None
             /\ Finished(c) => ret[c] = None

\* a Cache's get under version 2 has returned None for a key that is stored
\* under version 1, and the Repository's get has returned None
C13_Witness ==
    \E a, b \in Callers :
        /\ Finished(a) /\ call[a].layer = "cache" /\ call[a].op = "get"
        /\ call[a].key = ka /\ call[a].version = PyInt(2)
        /\ make_key(DefaultConfig, ka, None) \in DOMAIN store
        /\ Finished(b) /\ call[b].layer = "repository" /\ call[b].op = "get"
        /\ Req(b).key \notin DOMAIN store
        /\ ret[a] = None /\ ret[b] = None /\ exc[a] = "none" /\ exc[b] = "none"

-----------------------------------------------------------------------------
(* Operations whose store commands fail, or whose caller is cancelled *)

star == <<"*">>

\* key a as a Cache of the default configuration derives it, and the plain
\* key c
FailureSeeds ==
    {[k \in {make_key(DefaultConfig, ka, None), kc} |-> Entry(<<"7">>, 300)]}

InitFailure == InitWith(FailureSeeds, {DefaultConfig})

NextFailure ==
    \E c \in Callers :
        \/ \E expire \in {100, 0} : Cache_set(c, "cache1", ka, seven, expire, None)
        \/ Cache_set_nx(c, "cache1", ka, seven, 100, None)
        \/ Cache_set_many(c, "cache1", <<<<ka, seven>>, <<kb, pair>>>>, 100, None)
        \/ Cache_get(c, "cache1", ka, None)
        \/ Cache_get_many(c, "cache1", <<ka, kb>>, None)
        \/ Cache_delete(c, "cache1", ka, None)
        \/ Cache_delete_many(c, "cache1", <<ka, kb>>, None)
        \/ Cache_delete_pattern(c, "cache1", star, None)
        \/ Repository_delete_pattern(c, star)
        \/ Repository_set_many(c, <<<<kc, v1>>>>, 100)
        \/ set(c) \/ set_nx(c) \/ set_many(c) \/ get(c) \/ get_many(c)
        \/ delete(c) \/ delete_many(c) \/ delete_pattern_scan(c) \/ delete_pattern_delete(c)
        \/ ConnectionLost(c)
        \/ Disconnected(c)
        \/ Cancel(c)
        \/ Return(c)

SpecFailure == InitFailure /\ [][NextFailure]_vars

\* what the store driver raises: a lost connection, a command the store rejects
StoreErrors == {"ConnectionError", "ResponseError"}

\* the number of store commands the caller's operation has issued
Issued(c) == Cardinality({i \in 1..Len(log) : log[i] = c})

\* C14: once a store command of an operation has failed with an error of the
\* store driver, the operation keeps that error as it is until the caller has
\* it (unless the caller cancels the operation meanwhile), returns no result,
\* and issues no store command any more
C14_StoreErrorSurfaces ==
    [][\A c \in Callers :
          /\ exc[c] \in StoreErrors
             => /\ exc'[c] = exc[c] \/ (exc'[c] = "CancelledError" /\ pc[c] = "exit")
                /\ ret'[c] = None
                /\ log' = log \/ log'[Len(log')] # c
                /\ pc'[c] \in {"exit", "done"}
          /\ (pc[c] \in InFlight /\ exc'[c] \in StoreErrors) => pc'[c] = "exit"]_vars

\* a delete_pattern of a Cache has raised the error its second or later
\* store command failed with, and a set the store rejected has raised that
C14_Witness ==
    \E a, b \in Callers :
        /\ Finished(a) /\ call[a].layer = "cache" /\ call[a].op = "delete_pattern"
        /\ exc[a] = "ConnectionError" /\ Issued(a) >= 2
        /\ Finished(b) /\ call[b].layer = "cache" /\ call[b].op = "set"
        /\ exc[b] = "ResponseError"

\* C15: an operation that reaches the Repository enters the session scope
\* once when it starts and leaves it once when it ends, however it ends; it
\* is inside the scope exactly while it runs
C15_ScopedAcquisition ==
    \A c \in Callers :
        /\ entered[c] = Len(invoked[c]) /\ entered[c] <= 1
        /\ pc[c] \in InFlight \cup {"exit"} => entered[c] = 1 /\ exited[c] = 0
        /\ pc[c] \in {"idle", "done"} => exited[c] = entered[c]

\* a delete_pattern cancelled after its first scan and a set_many whose
\* pipeline lost the connection have both ended, each having left its scope
C15_Witness ==
    \E a, b \in Callers :
        /\ Finished(a) /\ Req(a).op = "delete_pattern"
        /\ exc[a] = "CancelledError" /\ Issued(a) >= 2 /\ cursor[a] # 0
        /\ Finished(b) /\ Req(b).op = "set_many" /\ exc[b] = "ConnectionError"
        /\ exited[a] = 1 /\ exited[b] = 1

-----------------------------------------------------------------------------
(* Operations in flight together on the shared client *)

SharedSeeds == {[k \in {ka, kb} |-> Entry(k \o v1, 100)]}

InitShared == InitWith(SharedSeeds, {DefaultConfig})

NextShared ==
    \E c \in Callers :
        \/ Repository_delete_pattern(c, star)
        \/ Repository_set_many(c, <<<<ka, v2>>, <<kc, v2>>>>, 100)
        \/ \E key \in {ka, kc} : Repository_get(c, key)
        \/ Repository_delete_many(c, <<ka, kb>>)
        \/ delete_pattern_scan(c)
        \/ delete_pattern_delete(c)
        \/ set_many(c)
        \/ get(c)
        \/ delete_many(c)
        \/ Disconnected(c)
        \/ Return(c)

SpecShared == InitShared /\ [][NextShared]_vars

\* C16: the close at the end of one operation never comes down on the
\* connection under another operation that is still inside its own scope, and
\* no operation fails because of another operation's close
C16_IndependentRelease ==
    \A c \in Callers : ~disconnected[c] /\ exc[c] # "ConnectionError"

-----------------------------------------------------------------------------
(* Construction of Repositories *)

redis_b == <<"r", "e", "d", "i", "s", ":", "/", "/", "b">>

DSNs == {redis_a, redis_b}

Repositories == {"r1", "r2", "r3", "r4", "r5", "r6"}

\* nothing is constructed yet
InitSingleton ==
    /\ store = EmptyStore
    /\ seed = store
    /\ cache = [x \in Caches |-> DefaultConfig]
    /\ NoCalls
    /\ _instances = NoWiring._instances
    /\ connection = NoWiring.connection
    /\ session = NoWiring.session

\* RedisCacheRepository(dsn)
RedisCacheRepository_init(r, dsn) ==
    /\ r \notin DOMAIN session
    /\ LET w == Construct([_instances |-> _instances, connection |-> connection,
                           session |-> session], r, dsn)
       IN  /\ _instances' = w._instances
           /\ connection' = w.connection
           /\ session' = w.session
    /\ UNCHANGED <<store, seed, cache, pc, call, cursor, keys, removed_keys, scanned,
                   reply, ret, exc, invoked, log, entered, exited, disconnected>>

NextSingleton ==
    \E r \in Repositories, dsn \in DSNs : RedisCacheRepository_init(r, dsn)

SpecSingleton == InitSingleton /\ [][NextSingleton]_vars

\* C19: two Repositories use the same connection object exactly when they
\* were constructed with the same DSN, and no DSN has had more than one
\* connection constructed for it
C19_KeyedByAddress ==
    /\ \A a, b \in DOMAIN session :
          (session[a]._session = session[b]._session) <=> (session[a].dsn = session[b].dsn)
    /\ \A i, j \in 1..Len(connection) : connection[i] = connection[j] => i = j

-----------------------------------------------------------------------------
(* delete_pattern of a Cache among keys of other prefixes and versions *)

ScopeConfigs == {DefaultConfig, ICache_init(PyStr(app), PyInt(2))}

\* the version of a call: left out, an int, or any string
ScopeVersions == {None, PyInt(1), PyInt(2), PyStr(<<"*">>), PyStr(<<"[", "1", "2", "]">>)}

Fragments == {ka, star, <<"?">>}

\* key a as stored under two prefixes and two versions
ScopeSeeds ==
    {[k \in {make_key(cfg, ka, version) :
               cfg \in ScopeConfigs, version \in {PyInt(1), PyInt(2)}} |->
        Entry(<<"7">>, 100)]}

InitScope == InitWith(ScopeSeeds, ScopeConfigs)

NextScope ==
    \/ \E c \in Callers, pattern \in Fragments, version \in ScopeVersions :
          Alone(c) /\ Cache_delete_pattern(c, "cache1", pattern, version)
    \/ \E c \in Callers : delete_pattern_scan(c) \/ delete_pattern_delete(c) \/ Return(c)

SpecScope == InitScope /\ [][NextScope]_vars

\* key k is "{prefix}:{version}:{x}" letter for letter, for an x the
\* fragment matches
InScope(cl, k) ==
    LET head == make_key(cache[cl.inst], <<>>, cl.version)
    IN  /\ Len(k) >= Len(head)
        /\ SubSeq(k, 1, Len(head)) = head
        /\ stringmatch(cl.key, SubSeq(k, Len(head) + 1, Len(k)))

\* C17: whatever a Cache's delete_pattern has removed is a key of the Cache's
\* own prefix and of the call's version whose logical key matches the
\* fragment; keys of another prefix or another version are all still there
C17_PatternScoped ==
    \A c \in Callers :
        (call[c].layer = "cache" /\ call[c].op = "delete_pattern")
        => \A k \in DOMAIN seed \ DOMAIN store : InScope(call[c], k)

-----------------------------------------------------------------------------
(* set, on any state of the key and under concurrency *)

\* key a absent, or present with a value and a remaining expiration, or
\* without expiration
SetSeeds ==
    {EmptyStore, Put(EmptyStore, ka, Entry(v0, 300)), Put(EmptyStore, ka, Entry(v1, 5)),
     Put(EmptyStore, ka, Entry(v2, NoTTL)),
     Put(Put(EmptyStore, ka, Entry(v0, 300)), kb, Entry(v0, 300))}

\* expirations given to set: two the store accepts, and 0, which it rejects
SetExpirations == Expirations \cup {0}

InitSet == InitWith(SetSeeds, {DefaultConfig})

NextSet ==
    \E c \in Callers :
        \/ \E key \in {ka, kb}, value \in {v1, v2}, expire \in SetExpirations :
              Repository_set(c, key, value, expire)
        \/ \E value \in {seven, pair}, expire \in SetExpirations :
              Cache_set(c, "cache1", ka, value, expire, None)
        \/ set(c)
        \/ Return(c)

SpecSet == InitSet /\ [][NextSet]_vars

\* the set calls on key k whose write the store has applied
Written(k) ==
    {c \in Callers : Executed(c) /\ Req(c).op = "set" /\ Req(c).key = k /\ exc[c] = "none"}

\* every key that sets were applied to holds the value and expiration of
\* the set applied last
LastWriteWins ==
    \A k \in {Req(c).key : c \in {d \in Callers : Executed(d)}} :
        Written(k) # {}
        => \E w \in Written(k) :
              /\ \A d \in Written(k) \ {w} : Before(d, w)
              /\ store[k] = Entry(Req(w).value, Req(w).expire)

\* C18: a set that completes leaves the key holding its value with its
\* expiration, whatever the key held, changes no other key, and returns True;
\* after several sets on one key the key holds the value and expiration of
\* the one whose write was applied last
C18_SetUnconditional ==
    [][/\ \A c \in Callers :
             /\ (Runs(c, "set") /\ exc'[c] = "none")
                => /\ store' = Put(store, Req(c).key, Entry(Req(c).value, Req(c).expire))
                   /\ reply'[c] = PyBool(TRUE)
             /\ Returns(c, "set") => ret'[c] = PyBool(TRUE)
       /\ LastWriteWins']_vars

\* two sets on a key that held a value have both returned True, and the key
\* holds the value and expiration of the later one
C18_Witness ==
    \E a, b \in Callers :
        /\ a # b /\ Finished(a) /\ Finished(b)
        /\ a \in Written(ka) /\ b \in Written(ka) /\ ka \in DOMAIN seed
        /\ Req(a).value # Req(b).value /\ Req(a).expire # Req(b).expire
        /\ Before(a, b)
        /\ ret[a] = PyBool(TRUE) /\ ret[b] = PyBool(TRUE)
        /\ store[ka] = Entry(Req(b).value, Req(b).expire)
        /\ store[ka] # seed[ka]

-----------------------------------------------------------------------------
(* delete_pattern's loop, among writers, scheduled fairly *)

ScanSeeds == {[k \in ks |-> Entry(k \o v1, 100)] : ks \in SUBSET {ka, kb, kc}}

InitScan == InitWith(ScanSeeds, {DefaultConfig})

NextScan ==
    \E c \in Callers :
        \/ \E pattern \in {ka, star} : Repository_delete_pattern(c, pattern)
        \/ \E key \in {ka, <<"d">>} : Repository_set(c, key, v2, 100)
        \/ Repository_delete(c, ka)
        \/ delete_pattern_scan(c)
        \/ delete_pattern_delete(c)
        \/ set(c)
        \/ delete(c)
        \/ Return(c)

\* the event loop resumes a coroutine whose awaited command has its reply,
\* and the store answers every command
SpecScan ==
    /\ InitScan
    /\ [][NextScan]_vars
    /\ \A c \in Callers :
          /\ WF_vars(delete_pattern_scan(c))
          /\ WF_vars(delete_pattern_delete(c))
          /\ WF_vars(Return(c))

\* where a delete_pattern call may be in its loop
LoopInvariant(c) ==
    (pc[c] # "idle" /\ Req(c).op = "delete_pattern")
    => /\ (pc[c] = "scan" /\ Issued(c) = 0) => cursor[c] = 0
       /\ (pc[c] = "scan" /\ Issued(c) > 0) => cursor[c] # 0
       /\ pc[c] = "delete" => keys[c] # <<>>
       /\ pc[c] \in {"exit", "done"} => cursor[c] = 0 /\ Issued(c) >= 1

\* C20: delete_pattern scans first from cursor 0, scans again only after a
\* scan that returned a cursor other than 0, deletes only a batch that is
\* not empty, has left its loop only after a scan that returned cursor 0,
\* and every call that has started returns
C20_Terminates ==
    /\ [](\A c \in Callers : LoopInvariant(c))
    /\ \A c \in Callers : (pc[c] = "scan") ~> (pc[c] = "done")

\* a call running alone has returned after at least three scans and a single
\* delete: it met an empty batch with a cursor other than 0
C20_Witness ==
    \E c \in Callers :
        /\ Finished(c) /\ Req(c).op = "delete_pattern" /\ Alone(c)
        /\ ret[c] = PyInt(1) /\ Issued(c) >= 4

-----------------------------------------------------------------------------
(* delete_pattern among actors that write and delete keys, with store       *)
(* commands that fail                                                       *)

\* the docstring's pattern h[ae]llo: hello and hallo match it, hbllo does not
SweepPattern == <<"h", "[", "a", "e", "]", "l", "l", "o">>

SweepSeeds == {[k \in ks |-> Entry(k, 100)] : ks \in SUBSET {hello, hallo, hbllo}}

InitSweep == InitWith(SweepSeeds, {DefaultConfig})

NextSweep ==
    \E c \in Callers :
        \/ Repository_delete_pattern(c, SweepPattern)
        \/ \E key \in {hello, hbllo} : Repository_set(c, key, v2, 200)
        \/ \E key \in {hello, hbllo} : Repository_delete(c, key)
        \/ delete_pattern_scan(c)
        \/ delete_pattern_delete(c)
        \/ set(c)
        \/ delete(c)
        \/ ConnectionLost(c)
        \/ Return(c)

SpecSweep == InitSweep /\ [][NextSweep]_vars

\* the step is one of caller c's
Moves(c) == pc'[c] # pc[c] \/ log' = Append(log, c)

\* the keys the step removed from the store
Removed == DOMAIN store \ DOMAIN store'

\* C21: the count of a delete_pattern call starts at 0, grows at each store
\* command the call completes by the number of keys that command removed
\* from the store (a key the batch names twice once, a key that was gone
\* before the command not at all), changes at no other step, and is what the
\* call returns
C21_CountsOwnRemovals ==
    [][\A c \in Callers :
          call'[c].op = "delete_pattern"
          => /\ pc[c] = "idle" => removed_keys'[c] = 0
             /\ (pc[c] \in {"scan", "delete"} /\ exc'[c] = "none")
                => removed_keys'[c] =
                      removed_keys[c] + (IF Moves(c) THEN Cardinality(Removed) ELSE 0)
             /\ (pc'[c] = "done" /\ exc'[c] = "none") => ret'[c] = PyInt(removed_keys'[c])]_vars

\* a scan replied hello, hallo and one of them again; another actor deleted
\* hello before the call's delete ran; the call returned 1
C21_Witness ==
    \E c, d \in Callers :
        /\ Finished(c) /\ Req(c).op = "delete_pattern" /\ exc[c] = "none"
        /\ Len(keys[c]) = 3 /\ SeqToSet(keys[c]) = {hello, hallo}
        /\ Finished(d) /\ Req(d).op = "delete" /\ Req(d).key = hello /\ ret[d] = PyInt(1)
        /\ log = <<c, d, c>>
        /\ ret[c] = PyInt(1)

\* C22: a step of a delete_pattern call, whether its store command succeeds
\* or fails, changes the store by nothing but the removal of keys the
\* pattern stands for: every other key keeps its value and expiration, and
\* no key is put back
C22_OnlyMatchingRemoved ==
    [][\A c \in Callers :
          (Moves(c) /\ call'[c].op = "delete_pattern")
          => /\ store' = Drop(store, Removed)
             /\ Removed \subseteq Matching(store, call'[c].key)]_vars

\* a call removed hello, then failed at a later store command and raised,
\* hallo still stored; meanwhile another actor overwrote hbllo
C22_Witness ==
    \E c, d \in Callers :
        /\ Finished(c) /\ Req(c).op = "delete_pattern" /\ exc[c] = "ConnectionError"
        /\ removed_keys[c] = 1 /\ Issued(c) >= 3
        /\ hello \in DOMAIN seed /\ hello \notin DOMAIN store
        /\ hallo \in DOMAIN store
        /\ Finished(d) /\ Req(d).op = "set" /\ Req(d).key = hbllo
        /\ hbllo \in DOMAIN seed /\ store[hbllo] = Entry(v2, 200)

-----------------------------------------------------------------------------
(* Calls of one Cache under different versions *)

\* the version of a call: left out, an int, or any string
IsolationVersions == {None, PyInt(1), PyInt(2), PyStr(<<"2", ":", "a">>)}

\* logical keys
IsolationKeys == {ka, <<"a", ":", "a">>}

InitIsolation == InitWith({EmptyStore}, {DefaultConfig})

NextIsolation ==
    \/ \E c \in Callers, version \in IsolationVersions, key \in IsolationKeys :
          \/ Cache_set(c, "cache1", key, seven, 100, version)
          \/ Cache_set_nx(c, "cache1", key, seven, 100, version)
          \/ Cache_set_many(c, "cache1", <<<<key, pair>>>>, 100, version)
          \/ Cache_get(c, "cache1", key, version)
          \/ Cache_get_many(c, "cache1", <<key>>, version)
          \/ Cache_delete(c, "cache1", key, version)
          \/ Cache_delete_many(c, "cache1", <<key>>, version)
    \/ \E c \in Callers :
          \/ set(c) \/ set_nx(c) \/ set_many(c) \/ get(c) \/ get_many(c)
          \/ delete(c) \/ delete_many(c)
          \/ Return(c)

SpecIsolation == InitIsolation /\ [][NextIsolation]_vars

\* the version a call is made under: the override, or the Cache's default
Effective(cl) == IF cl.version = None THEN cache[cl.inst].version ELSE cl.version

\* the store keys the caller's operation names
Named(c) ==
    (IF Req(c).key # <<>> THEN {Req(c).key} ELSE {}) \cup SeqToSet(Req(c).keys)
        \cup {Req(c).data[i][1] : i \in 1..Len(Req(c).data)}

Writes == {"set", "set_nx", "set_many"}

\* C23: two calls of one Cache under different versions name no store key in
\* common; what one has written the other does not read (its get and
\* get_many find nothing on a store that was empty), remove (its delete and
\* delete_many remove nothing) or overwrite
C23_VersionsIsolate ==
    \A c, d \in Callers :
        (/\ c # d /\ invoked[c] # <<>> /\ invoked[d] # <<>>
         /\ call[c].inst = call[d].inst
         /\ Effective(call[c]) # Effective(call[d]))
        => /\ Named(c) \cap Named(d) = {}
           /\ (call[c].op \in Writes /\ Finished(d) /\ exc[d] = "none")
              => /\ call[d].op = "get" => ret[d] = None
                 /\ call[d].op = "get_many" => ret[d] = PyList(<<None>>)
                 /\ call[d].op \in {"delete", "delete_many"} => ret[d] = PyInt(0)
           /\ (call[c].op \in Writes /\ call[d].op \in Writes /\ Finished(c) /\ Finished(d))
              => \A k \in Named(c) : k \in DOMAIN store /\ store[k].val \in {dumps(x).bytes : x \in Given(call[c])}

-----------------------------------------------------------------------------
(* get of a Cache after a set of the same key *)

\* JSON values, the falsy ones of each type among them
StoredValues == {None, PyBool(FALSE), PyInt(0), seven, PyStr(<<>>), PyList(<<>>), pair}

InitStored == InitWith({EmptyStore}, {DefaultConfig})

NextStored ==
    \E c \in Callers :
        \/ \E value \in StoredValues, version \in {None, PyInt(2)} :
              Cache_set(c, "cache1", ka, value, 100, version)
        \/ \E key \in {ka, kb}, version \in {None, PyInt(2)} :
              Cache_get(c, "cache1", key, version)
        \/ Cache_delete(c, "cache1", ka, None)
        \/ set(c) \/ get(c) \/ delete(c)
        \/ Return(c)

SpecStored == InitStored /\ [][NextStored]_vars

\* C24: a get of a Cache that ran after a successful set of a JSON value
\* under the same key and version, the value still stored, returns something
\* other than the None a get of a key never set returns
C24_AbsentMeansNotStored ==
    \A c, d \in Callers :
        (/\ Finished(c) /\ call[c].layer = "cache" /\ call[c].op = "set"
         /\ exc[c] = "none" /\ ret[c] = PyBool(TRUE)
         /\ Finished(d) /\ call[d].layer = "cache" /\ call[d].op = "get"
         /\ Req(d).key = Req(c).key
         /\ Before(c, d)
         /\ Req(c).key \in DOMAIN store /\ store[Req(c).key].val = Req(c).value)
        => ~(exc[d] = "none" /\ ret[d] = None)

-----------------------------------------------------------------------------
(* Calls of a Cache with a version override, the falsy ones included *)

OverrideConfigs == {DefaultConfig, ICache_init(PyStr(app), PyStr(<<"v">>))}

\* no override, the falsy overrides 0 and "", and two others
Overrides == {None, PyInt(0), PyStr(<<>>), PyInt(2), PyStr(<<"w">>)}

InitOverride == InitWith({EmptyStore}, OverrideConfigs)

NextOverride ==
    \/ \E c \in Callers, self \in Caches, version \in Overrides :
          \/ Cache_make_key(c, self, ka, version)
          \/ Cache_set(c, self, ka, seven, 100, version)
          \/ Cache_get(c, self, ka, version)
          \/ Cache_delete_many(c, self, <<ka, kb>>, version)
    \/ \E c \in Callers : set(c) \/ get(c) \/ delete_many(c) \/ Return(c)

SpecOverride == InitOverride /\ [][NextOverride]_vars

\* a version as it stands in a key
OverrideText(version) ==
    CASE version = PyInt(0) -> <<"0">>
      [] version = PyInt(1) -> <<"1">>
      [] version = PyInt(2) -> <<"2">>
      [] version = PyStr(<<>>) -> <<>>
      [] version = PyStr(<<"v">>) -> <<"v">>
      [] version = PyStr(<<"w">>) -> <<"w">>

\* the key of a call: the override's text as version when an override was
\* given, the default's when none was
WithOverride(cl, k) ==
    cache[cl.inst].key_prefix \o <<":">>
        \o (IF cl.version = None THEN OverrideText(cache[cl.inst].version)
            ELSE OverrideText(cl.version))
        \o <<":">> \o k

\* C25: the version in every key a call of a Cache derives is the call's
\* override whenever one is given, 0 and "" included, and the Cache's
\* default version only when none is given
C25_OverrideUsed ==
    \A c \in Callers :
        /\ MadeKey(c) => ret[c] = PyStr(WithOverride(call[c], call[c].key))
        /\ (call[c].layer = "cache" /\ call[c].op \in {"set", "get"})
           => Req(c).key = WithOverride(call[c], call[c].key)
        /\ (call[c].layer = "cache" /\ call[c].op = "delete_many")
           => Req(c).keys = [i \in 1..Len(call[c].keys) |-> WithOverride(call[c], call[c].keys[i])]

\* on a Cache whose default version is "v", a key was made with override 0
\* and a value was set under override ""
C25_Witness ==
    \E a, b \in Callers :
        /\ MadeKey(a) /\ call[a].version = PyInt(0)
        /\ cache[call[a].inst].version = PyStr(<<"v">>)
        /\ ret[a] = PyStr(<<"a", "p", "p", ":", "0", ":", "a">>)
        /\ Finished(b) /\ call[b].op = "set" /\ call[b].version = PyStr(<<>>)
        /\ cache[call[b].inst].version = PyStr(<<"v">>)
        /\ <<"a", "p", "p", ":", ":", "a">> \in DOMAIN store

-----------------------------------------------------------------------------
(* Batch operations given an empty collection *)

EmptySeeds == {EmptyStore, [k \in {ka, make_key(DefaultConfig, ka, None)} |-> Entry(<<"7">>, 300)]}

InitEmpty == InitWith(EmptySeeds, {DefaultConfig})

\* the key lists and the dicts given: the empty one, and one of a single key
NextEmpty ==
    \E c \in Callers :
        \/ \E ks \in {<<>>, <<ka>>} :
              \/ Repository_delete_many(c, ks)
              \/ Repository_get_many(c, ks)
              \/ Cache_delete_many(c, "cache1", ks, None)
              \/ Cache_get_many(c, "cache1", ks, None)
        \/ \E data \in {<<>>, <<<<ka, v1>>>>} : Repository_set_many(c, data, 100)
        \/ \E data \in {<<>>, <<<<ka, seven>>>>} : Cache_set_many(c, "cache1", data, 100, None)
        \/ set_many(c) \/ get_many(c) \/ delete_many(c)
        \/ Return(c)

SpecEmpty == InitEmpty /\ [][NextEmpty]_vars

\* the caller's batch operation was given an empty collection and has ended
EndedOnEmpty(c, op) ==
    /\ Finished(c) /\ call[c].op = op
    /\ call[c].keys = <<>> /\ call[c].data = <<>>

\* C26: delete_many of no keys returns 0, get_many of no keys returns the
\* empty list and set_many of no items returns True; none raises, and the
\* store is as it was when no other caller ran
C26_EmptyBatches ==
    \A c \in Callers :
        /\ EndedOnEmpty(c, "delete_many") => exc[c] = "none" /\ ret[c] = PyInt(0)
        /\ EndedOnEmpty(c, "get_many") => exc[c] = "none" /\ ret[c] = PyList(<<>>)
        /\ EndedOnEmpty(c, "set_many") => exc[c] = "none" /\ ret[c] = PyBool(TRUE)
        /\ (\E op \in {"delete_many", "get_many", "set_many"} : EndedOnEmpty(c, op)) /\ Alone(c)
           => store = seed


====
